---- MODULE Spec2Model ----
(***************************************************************************)
(* A model of the dental-website backend: the Express routers for the      *)
(* content types, their middleware chains, the Cloudinary side effects     *)
(* and the MongoDB connection guards.  Each subsystem has its own          *)
(* variables, its own next-state relation and its own specification; the   *)
(* variables of the other subsystems stay at their initial value.          *)
(***************************************************************************)
EXTENDS Integers, Sequences, FiniteSets, TLC

VARIABLES
    features,      \* routes/features.js: the in-memory feature list
    nextId,        \* routes/features.js: the id given to the next feature
    featRes,       \* status of the last response of the features router
    heroVideos,    \* the HeroVideo collection: a set of documents
    cloudVideos,   \* public_ids of the videos stored in Cloudinary
    hvReq,         \* the requests of the hero-video router that are in flight
    hvNextDoc,     \* the _id MongoDB gives to the next HeroVideo document
    hvNextPid,     \* the public_id Cloudinary gives to the next video
    clinicInfos,   \* the ClinicInfo collection: a set of documents
    ciNextDoc,     \* the _id MongoDB gives to the next ClinicInfo document
    ciRes,         \* status of the last response of the clinic-info router
    teamPictures,  \* the TeamPicture collection: a set of documents
    tpCloud,       \* public_ids of the team pictures stored in Cloudinary
    tpReq,         \* the requests of the team-pictures router in flight
    tpNextDoc,     \* the _id MongoDB gives to the next TeamPicture document
    tpNextPid,     \* the public_id Cloudinary gives to the next team picture
    tpUniqueIndex, \* whether MongoDB holds the unique index of the schema
    rq,            \* a request on its way through the middleware chain of its route
    gd,            \* the entrypoint process: its URI, mongoose's readyState, cached
    gdReq,         \* the requests at the DB-readiness guard of the entrypoint
    heroImages,    \* the HeroImage collection: a set of documents
    hiCloud,       \* public_ids of the hero images stored in Cloudinary
    hiNextDoc,     \* the _id MongoDB gives to the next HeroImage document
    hiNextPid,     \* the public_id Cloudinary gives to the next hero image
    hiLast,         \* the last request of the hero-images router and its answer
    results, \* the Results collection: a set of documents
    rsCloud, \* public_ids of the result images stored in Cloudinary
    rsNextDoc, \* the _id MongoDB gives to the next Results document
    rsNextPid, \* the public_id Cloudinary gives to the next result image
    rsLast, \* the last request of the results router and its answer
    er, \* a request on its way through the app-level middleware of an entrypoint
    up, \* a request with a file at the multer instance of its route
    cd, \* the serverless entrypoint: readyState, cachedConnection, connectionPromise
    cdAtt, \* the connection attempts started by connectDB and where they stand
    cdNext, \* the number of the next connection attempt
    cdLast, \* what the last connectDB call returned
    uriSt, \* an entrypoint process: its environment and the connection string it resolves
    cached, \* global.__mongooseConn of api/index.js
    ccPromises, \* the promises made by mongoose.connect
    ccConnects, \* number of mongoose.connect calls
    ccCalls \* the running connectDB calls

featVars == <<features, nextId, featRes>>
hvVars == <<heroVideos, cloudVideos, hvReq, hvNextDoc, hvNextPid>>
ciVars == <<clinicInfos, ciNextDoc, ciRes>>
tpVars == <<teamPictures, tpCloud, tpReq, tpNextDoc, tpNextPid, tpUniqueIndex>>
rqVars == <<rq>>

gdVars == <<gd, gdReq>>
hiVars == <<heroImages, hiCloud, hiNextDoc, hiNextPid, hiLast>>

rsVars == <<results, rsCloud, rsNextDoc, rsNextPid, rsLast>>

erVars == <<er>>

upVars == <<up>>

cdVars == <<cd, cdAtt, cdNext, cdLast>>

uriVars == <<uriSt>>

ccVars == <<cached, ccPromises, ccConnects, ccCalls>>

vars == <<featVars, hvVars, ciVars, tpVars, rqVars, gdVars, hiVars, rsVars, erVars, upVars, cdVars, uriVars, ccVars>>

(***************************************************************************)
(* middleware/auth.js is not part of the sources at hand: a request        *)
(* carries no token, an invalid token or a valid token, and only a valid   *)
(* token lets the request through; every other request is answered 401     *)
(* and next() is not called.                                               *)
(***************************************************************************)
Tokens == {"none", "invalid", "valid"}

auth(tok) == tok = "valid"

(***************************************************************************)
(* routes/features.js (in-memory list, at most two items)                  *)
(***************************************************************************)
MaxFeatures == 2

\* bound of the model: ids handed out by nextId++
MaxNextId == 6

FeatureNames == {"Innovative Equipment", "Personalized Approach", "New"}

FeaturesInit ==
    /\ features = << [id |-> 1, featureName |-> "Innovative Equipment"],
                     [id |-> 2, featureName |-> "Personalized Approach"] >>
    /\ nextId = 3
    /\ featRes = 0

\* a plausible slip of the limit check: > instead of >=
MaximumFeaturesReachedOffByOne == Len(features) > MaxFeatures

\* if (features.length >= 2)
MaximumFeaturesReached == Len(features) >= MaxFeatures

\* features.findIndex(feature => feature.id === featureId); 0 stands for -1
findIndex(featureId) ==
    IF \E i \in 1..Len(features) : features[i].id = featureId
    THEN CHOOSE i \in 1..Len(features) :
            /\ features[i].id = featureId
            /\ \A j \in 1..(i - 1) : features[j].id # featureId
    ELSE 0

\* features.splice(featureIndex, 1)
splice(s, i) == [k \in 1..(Len(s) - 1) |-> IF k < i THEN s[k] ELSE s[k + 1]]

\* POST /api/features: auth, validators, then the handler, which runs without
\* an await between the limit check and the push
PostFeature(tok, valid, name) ==
    /\ nextId <= MaxNextId
    /\ IF ~auth(tok)
       THEN /\ featRes' = 401
            /\ UNCHANGED <<features, nextId>>
       ELSE IF ~valid
       THEN /\ featRes' = 400
            /\ UNCHANGED <<features, nextId>>
       ELSE IF MaximumFeaturesReached
       THEN /\ featRes' = 400
            /\ UNCHANGED <<features, nextId>>
       ELSE /\ features' = Append(features, [id |-> nextId, featureName |-> name])
            /\ nextId' = nextId + 1
            /\ featRes' = 201
    /\ UNCHANGED <<hvVars, ciVars, tpVars, rqVars, gdVars, hiVars, rsVars, erVars, upVars, cdVars, uriVars, ccVars>>

\* DELETE /api/features/:id
DeleteFeature(tok, featureId) ==
    /\ IF ~auth(tok)
       THEN /\ featRes' = 401
            /\ UNCHANGED <<features, nextId>>
       ELSE IF findIndex(featureId) = 0
       THEN /\ featRes' = 404
            /\ UNCHANGED <<features, nextId>>
       ELSE /\ features' = splice(features, findIndex(featureId))
            /\ featRes' = 200
            /\ UNCHANGED nextId
    /\ UNCHANGED <<hvVars, ciVars, tpVars, rqVars, gdVars, hiVars, rsVars, erVars, upVars, cdVars, uriVars, ccVars>>

FeaturesNext ==
    \/ \E tok \in Tokens, valid \in BOOLEAN, name \in FeatureNames :
          PostFeature(tok, valid, name)
    \/ \E tok \in Tokens, featureId \in 1..MaxNextId :
          DeleteFeature(tok, featureId)

(***************************************************************************)
(* routes/heroVideo.js with middleware/uploadVideo.js.  A request runs     *)
(* until its next await; the awaited Cloudinary or MongoDB operation then  *)
(* completes in a later step, so that requests interleave at the awaits.   *)
(***************************************************************************)
\* bounds of the model
MaxHvReq == 2
MaxHvDocs == 3
MaxHvUploads == 3

HvReqIds == 1..MaxHvReq

\* what multer (uploadSingleVideo, then handleUploadError) leaves of the
\* "video" part: no file, an accepted file, or an error answered 400
HvFiles == {"none", "video", "rejected"}

HvIdle == [route |-> "none", pc |-> "idle", valid |-> FALSE, existing |-> 0,
           cloudinaryData |-> 0, status |-> 0, why |-> "none"]

HeroVideoInit ==
    /\ heroVideos = {}
    /\ cloudVideos = {}
    /\ hvReq = [r \in HvReqIds |-> HvIdle]
    /\ hvNextDoc = 1
    /\ hvNextPid = 1

HvFree(r) == hvReq[r].pc \in {"idle", "done"}

HvRespond(r, status, why) ==
    [hvReq EXCEPT ![r].pc = "done", ![r].status = status, ![r].why = why]

\* HeroVideo.findOne({ isActive: true }): the documents it may return
ActiveHeroVideos == {d \in heroVideos : d.isActive}

\* auth, uploadSingleVideo, handleUploadError, then handleVideoUpload up to
\* its await of cloudinary.uploader.upload
HvReceiveUpload(r, route, tok, file, valid) ==
    /\ HvFree(r)
    /\ route \in {"post", "put"}
    /\ hvReq' =
         IF ~auth(tok)
         THEN [hvReq EXCEPT ![r] = [HvIdle EXCEPT !.route = route, !.pc = "done",
                                      !.status = 401, !.why = "auth"]]
         ELSE IF file = "rejected"
         THEN [hvReq EXCEPT ![r] = [HvIdle EXCEPT !.route = route, !.pc = "done",
                                      !.status = 400, !.why = "multer"]]
         ELSE IF file = "none"
         THEN [hvReq EXCEPT ![r] = [HvIdle EXCEPT !.route = route, !.pc = "done",
                                      !.status = 400, !.why = "nofile"]]
         ELSE [hvReq EXCEPT ![r] = [HvIdle EXCEPT !.route = route, !.pc = "upload",
                                      !.valid = valid]]
    /\ UNCHANGED <<heroVideos, cloudVideos, hvNextDoc, hvNextPid>>
    /\ UNCHANGED <<featVars, ciVars, tpVars, rqVars, gdVars, hiVars, rsVars, erVars, upVars, cdVars, uriVars, ccVars>>

\* cloudinary.uploader.upload resolves or rejects; on success handleVideoUpload
\* sets req.cloudinaryData and calls next(): the validators run and the route
\* handler runs up to its await of HeroVideo.findOne
HvUploadDone(r, ok) ==
    /\ hvReq[r].pc = "upload"
    /\ hvNextPid <= MaxHvUploads
    /\ IF ~ok
       THEN /\ hvReq' = HvRespond(r, 500, "upload")
            /\ UNCHANGED <<cloudVideos, hvNextPid>>
       ELSE /\ cloudVideos' = cloudVideos \cup {hvNextPid}
            /\ hvNextPid' = hvNextPid + 1
            /\ hvReq' =
                 IF ~hvReq[r].valid
                 THEN [hvReq EXCEPT ![r].pc = "done", ![r].status = 400,
                                    ![r].why = "validation",
                                    ![r].cloudinaryData = hvNextPid]
                 ELSE [hvReq EXCEPT ![r].pc = "findOne",
                                    ![r].cloudinaryData = hvNextPid]
    /\ UNCHANGED <<heroVideos, hvNextDoc>>
    /\ UNCHANGED <<featVars, ciVars, tpVars, rqVars, gdVars, hiVars, rsVars, erVars, upVars, cdVars, uriVars, ccVars>>

\* DELETE /api/hero-videos: auth, then the handler up to its await of findOne
HvReceiveDelete(r, tok) ==
    /\ HvFree(r)
    /\ hvReq' =
         IF ~auth(tok)
         THEN [hvReq EXCEPT ![r] = [HvIdle EXCEPT !.route = "delete", !.pc = "done",
                                      !.status = 401, !.why = "auth"]]
         ELSE [hvReq EXCEPT ![r] = [HvIdle EXCEPT !.route = "delete", !.pc = "findOne"]]
    /\ UNCHANGED <<heroVideos, cloudVideos, hvNextDoc, hvNextPid>>
    /\ UNCHANGED <<featVars, ciVars, tpVars, rqVars, gdVars, hiVars, rsVars, erVars, upVars, cdVars, uriVars, ccVars>>

\* the handler of POST after findOne: an existing document is answered 400
HvPostExists(found) == found # 0

\* HeroVideo.findOne({ isActive: true }) resolves with a document (its _id)
\* or with null (0); the handler runs up to its next await
HvFindOneDone(r, found) ==
    /\ hvReq[r].pc = "findOne"
    /\ \/ found = 0 /\ ActiveHeroVideos = {}
       \/ \E d \in ActiveHeroVideos : d._id = found
    /\ hvReq' =
         CASE hvReq[r].route = "post" ->
                IF HvPostExists(found)
                THEN HvRespond(r, 400, "exists")
                ELSE [hvReq EXCEPT ![r].pc = "write"]
           [] hvReq[r].route = "put" ->
                IF found = 0
                THEN HvRespond(r, 400, "missing")
                ELSE [hvReq EXCEPT ![r].pc = "destroy", ![r].existing = found]
           [] OTHER ->
                IF found = 0
                THEN HvRespond(r, 404, "missing")
                ELSE [hvReq EXCEPT ![r].pc = "destroy", ![r].existing = found]
    /\ UNCHANGED <<heroVideos, cloudVideos, hvNextDoc, hvNextPid>>
    /\ UNCHANGED <<featVars, ciVars, tpVars, rqVars, gdVars, hiVars, rsVars, erVars, upVars, cdVars, uriVars, ccVars>>

\* the public_id of the document findOne returned, as the handler holds it
HvExistingPid(r) ==
    LET ds == {d \in heroVideos : d._id = hvReq[r].existing}
    IN  IF ds = {} THEN 0 ELSE (CHOOSE d \in ds : TRUE).public_id

\* cloudinary.uploader.destroy(existing.video.public_id) resolves or rejects
HvDestroyDone(r, ok) ==
    /\ hvReq[r].pc = "destroy"
    /\ IF ~ok
       THEN /\ hvReq' = HvRespond(r, 500, "destroy")
            /\ UNCHANGED cloudVideos
       ELSE /\ cloudVideos' = cloudVideos \ {HvExistingPid(r)}
            /\ hvReq' = [hvReq EXCEPT ![r].pc = "write"]
    /\ UNCHANGED <<heroVideos, hvNextDoc, hvNextPid>>
    /\ UNCHANGED <<featVars, ciVars, tpVars, rqVars, gdVars, hiVars, rsVars, erVars, upVars, cdVars, uriVars, ccVars>>

\* HeroVideo.create / findByIdAndUpdate / findByIdAndDelete is applied and
\* the response is sent
HvWriteDone(r) ==
    /\ hvReq[r].pc = "write"
    /\ CASE hvReq[r].route = "post" ->
              /\ hvNextDoc <= MaxHvDocs
              /\ heroVideos' = heroVideos \cup
                    {[_id |-> hvNextDoc, public_id |-> hvReq[r].cloudinaryData,
                      isActive |-> TRUE]}
              /\ hvNextDoc' = hvNextDoc + 1
              /\ hvReq' = HvRespond(r, 201, "created")
         [] hvReq[r].route = "put" ->
              /\ heroVideos' =
                    {IF d._id = hvReq[r].existing
                     THEN [d EXCEPT !.public_id = hvReq[r].cloudinaryData]
                     ELSE d : d \in heroVideos}
              /\ hvReq' = HvRespond(r, 200, "updated")
              /\ UNCHANGED hvNextDoc
         [] OTHER ->
              /\ heroVideos' = {d \in heroVideos : d._id # hvReq[r].existing}
              /\ hvReq' = HvRespond(r, 200, "deleted")
              /\ UNCHANGED hvNextDoc
    /\ UNCHANGED <<cloudVideos, hvNextPid>>
    /\ UNCHANGED <<featVars, ciVars, tpVars, rqVars, gdVars, hiVars, rsVars, erVars, upVars, cdVars, uriVars, ccVars>>

HeroVideoNext ==
    \/ \E r \in HvReqIds, route \in {"post", "put"}, tok \in Tokens,
          file \in HvFiles, valid \in BOOLEAN :
          HvReceiveUpload(r, route, tok, file, valid)
    \/ \E r \in HvReqIds, ok \in BOOLEAN : HvUploadDone(r, ok)
    \/ \E r \in HvReqIds, tok \in Tokens : HvReceiveDelete(r, tok)
    \/ \E r \in HvReqIds, found \in 0..MaxHvDocs : HvFindOneDone(r, found)
    \/ \E r \in HvReqIds, ok \in BOOLEAN : HvDestroyDone(r, ok)
    \/ \E r \in HvReqIds : HvWriteDone(r)

(***************************************************************************)
(* routes/clinicInfo.js.  The claims about it speak of sequences of        *)
(* requests, so each request is one step.                                  *)
(***************************************************************************)
\* bound of the model
MaxCiDocs == 4

\* the isActive field of a request body: absent, or a boolean
BodyIsActive == {"absent", "true", "false"}

ClinicInfoInit ==
    /\ clinicInfos = {}
    /\ ciNextDoc = 1
    /\ ciRes = 0

\* ClinicInfo.findOne({ isActive: true }): the documents it may return
ActiveClinicInfos == {d \in clinicInfos : d.isActive}

\* ClinicInfo.create(req.body): isActive is taken from the body, and is true
\* (the schema's default) when the body has none
ClinicInfoCreated(id, isActive) == [_id |-> id, isActive |-> (isActive # "false")]

\* ClinicInfo.findByIdAndUpdate(existing._id, req.body): sets the fields of
\* the body, isActive among them
ClinicInfoUpdated(d, isActive) ==
    IF isActive = "absent" THEN d ELSE [d EXCEPT !.isActive = (isActive = "true")]

\* POST /api/clinic-info
PostClinicInfo(tok, valid, isActive) ==
    /\ ciNextDoc <= MaxCiDocs
    /\ IF ~auth(tok)
       THEN /\ ciRes' = 401
            /\ UNCHANGED <<clinicInfos, ciNextDoc>>
       ELSE IF ~valid
       THEN /\ ciRes' = 400
            /\ UNCHANGED <<clinicInfos, ciNextDoc>>
       ELSE IF ActiveClinicInfos # {}
       THEN /\ ciRes' = 400
            /\ UNCHANGED <<clinicInfos, ciNextDoc>>
       ELSE /\ clinicInfos' = clinicInfos \cup {ClinicInfoCreated(ciNextDoc, isActive)}
            /\ ciNextDoc' = ciNextDoc + 1
            /\ ciRes' = 201
    /\ UNCHANGED <<featVars, hvVars, tpVars, rqVars, gdVars, hiVars, rsVars, erVars, upVars, cdVars, uriVars, ccVars>>

\* PUT /api/clinic-info/update
PutClinicInfo(tok, valid, isActive) ==
    /\ IF ~auth(tok)
       THEN /\ ciRes' = 401
            /\ UNCHANGED clinicInfos
       ELSE IF ~valid
       THEN /\ ciRes' = 400
            /\ UNCHANGED clinicInfos
       ELSE IF ActiveClinicInfos = {}
       THEN /\ ciRes' = 400
            /\ UNCHANGED clinicInfos
       ELSE \E existing \in ActiveClinicInfos :
            /\ clinicInfos' = (clinicInfos \ {existing})
                                 \cup {ClinicInfoUpdated(existing, isActive)}
            /\ ciRes' = 200
    /\ UNCHANGED ciNextDoc
    /\ UNCHANGED <<featVars, hvVars, tpVars, rqVars, gdVars, hiVars, rsVars, erVars, upVars, cdVars, uriVars, ccVars>>

\* DELETE /api/clinic-info
DeleteClinicInfo(tok) ==
    /\ IF ~auth(tok)
       THEN /\ ciRes' = 401
            /\ UNCHANGED clinicInfos
       ELSE IF ActiveClinicInfos = {}
       THEN /\ ciRes' = 404
            /\ UNCHANGED clinicInfos
       ELSE \E existing \in ActiveClinicInfos :
            /\ clinicInfos' = clinicInfos \ {existing}
            /\ ciRes' = 200
    /\ UNCHANGED ciNextDoc
    /\ UNCHANGED <<featVars, hvVars, tpVars, rqVars, gdVars, hiVars, rsVars, erVars, upVars, cdVars, uriVars, ccVars>>

ClinicInfoNext ==
    \/ \E tok \in Tokens, valid \in BOOLEAN, isActive \in BodyIsActive :
          PostClinicInfo(tok, valid, isActive)
    \/ \E tok \in Tokens, valid \in BOOLEAN, isActive \in BodyIsActive :
          PutClinicInfo(tok, valid, isActive)
    \/ \E tok \in Tokens : DeleteClinicInfo(tok)

(***************************************************************************)
(* routes/teamPictures.js with middleware/uploadImage.js and               *)
(* models/TeamPicture.js.  Requests interleave at their awaits.            *)
(*                                                                         *)
(* The schema declares index({}, { unique: true }).  An index needs at     *)
(* least one key, so whether MongoDB builds anything for it is not decided *)
(* by the sources: tpUniqueIndex is either value, fixed at start-up.  With *)
(* the index in place every document has the same (empty) key, and a       *)
(* second insert is refused.                                               *)
(***************************************************************************)
\* bounds of the model
MaxTpReq == 2
MaxTpDocs == 2
MaxTpUploads == 2

TpReqIds == 1..MaxTpReq

\* what multer (uploadSingleImage, then handleUploadError) leaves of the
\* "image" part: no file, an accepted file, or an error answered 400
TpFiles == {"none", "image", "rejected"}

TpIdle == [route |-> "none", pc |-> "idle", valid |-> FALSE, existing |-> 0,
           cloudinaryData |-> 0, status |-> 0]

TeamPictureInit ==
    /\ teamPictures = {}
    /\ tpCloud = {}
    /\ tpReq = [r \in TpReqIds |-> TpIdle]
    /\ tpNextDoc = 1
    /\ tpNextPid = 1
    /\ tpUniqueIndex \in BOOLEAN

TpFree(r) == tpReq[r].pc \in {"idle", "done"}

TpRespond(r, status) == [tpReq EXCEPT ![r].pc = "done", ![r].status = status]

\* auth, uploadSingleImage, handleUploadError, then handleImageUpload up to
\* its await of uploadImage
TpReceiveUpload(r, route, tok, file, valid) ==
    /\ TpFree(r)
    /\ route \in {"post", "put"}
    /\ tpReq' =
         IF ~auth(tok)
         THEN [tpReq EXCEPT ![r] = [TpIdle EXCEPT !.route = route, !.pc = "done",
                                      !.status = 401]]
         ELSE IF file # "image"
         THEN [tpReq EXCEPT ![r] = [TpIdle EXCEPT !.route = route, !.pc = "done",
                                      !.status = 400]]
         ELSE [tpReq EXCEPT ![r] = [TpIdle EXCEPT !.route = route, !.pc = "upload",
                                      !.valid = valid]]
    /\ UNCHANGED <<teamPictures, tpCloud, tpNextDoc, tpNextPid, tpUniqueIndex>>
    /\ UNCHANGED <<featVars, hvVars, ciVars, rqVars, gdVars, hiVars, rsVars, erVars, upVars, cdVars, uriVars, ccVars>>

\* uploadImage resolves or rejects; on success the validators run and the
\* handler runs up to its await of TeamPicture.findOne()
TpUploadDone(r, ok) ==
    /\ tpReq[r].pc = "upload"
    /\ tpNextPid <= MaxTpUploads
    /\ IF ~ok
       THEN /\ tpReq' = TpRespond(r, 500)
            /\ UNCHANGED <<tpCloud, tpNextPid>>
       ELSE /\ tpCloud' = tpCloud \cup {tpNextPid}
            /\ tpNextPid' = tpNextPid + 1
            /\ tpReq' =
                 IF ~tpReq[r].valid
                 THEN [tpReq EXCEPT ![r].pc = "done", ![r].status = 400,
                                    ![r].cloudinaryData = tpNextPid]
                 ELSE [tpReq EXCEPT ![r].pc = "findOne",
                                    ![r].cloudinaryData = tpNextPid]
    /\ UNCHANGED <<teamPictures, tpNextDoc, tpUniqueIndex>>
    /\ UNCHANGED <<featVars, hvVars, ciVars, rqVars, gdVars, hiVars, rsVars, erVars, upVars, cdVars, uriVars, ccVars>>

\* DELETE /api/team-pictures: auth, then the handler up to its await of findOne
TpReceiveDelete(r, tok) ==
    /\ TpFree(r)
    /\ tpReq' =
         IF ~auth(tok)
         THEN [tpReq EXCEPT ![r] = [TpIdle EXCEPT !.route = "delete", !.pc = "done",
                                      !.status = 401]]
         ELSE [tpReq EXCEPT ![r] = [TpIdle EXCEPT !.route = "delete", !.pc = "findOne"]]
    /\ UNCHANGED <<teamPictures, tpCloud, tpNextDoc, tpNextPid, tpUniqueIndex>>
    /\ UNCHANGED <<featVars, hvVars, ciVars, rqVars, gdVars, hiVars, rsVars, erVars, upVars, cdVars, uriVars, ccVars>>

\* TeamPicture.findOne() resolves with a document (its _id) or with null (0)
TpFindOneDone(r, found) ==
    /\ tpReq[r].pc = "findOne"
    /\ \/ found = 0 /\ teamPictures = {}
       \/ \E d \in teamPictures : d._id = found
    /\ tpReq' =
         IF found # 0
         THEN [tpReq EXCEPT ![r].pc = "destroy", ![r].existing = found]
         ELSE IF tpReq[r].route = "post"
         THEN [tpReq EXCEPT ![r].pc = "write"]
         ELSE TpRespond(r, 404)
    /\ UNCHANGED <<teamPictures, tpCloud, tpNextDoc, tpNextPid, tpUniqueIndex>>
    /\ UNCHANGED <<featVars, hvVars, ciVars, rqVars, gdVars, hiVars, rsVars, erVars, upVars, cdVars, uriVars, ccVars>>

\* the public_id of the document findOne returned, as the handler holds it
TpExistingPid(r) ==
    LET ds == {d \in teamPictures : d._id = tpReq[r].existing}
    IN  IF ds = {} THEN 0 ELSE (CHOOSE d \in ds : TRUE).public_id

\* deleteImage(existing.picture.public_id) resolves or rejects: POST and PUT
\* catch the failure and go on, DELETE answers 500
TpDestroyDone(r, ok) ==
    /\ tpReq[r].pc = "destroy"
    /\ IF ok
       THEN /\ tpCloud' = tpCloud \ {TpExistingPid(r)}
            /\ tpReq' = [tpReq EXCEPT ![r].pc = "write"]
       ELSE /\ tpReq' = IF tpReq[r].route = "delete"
                        THEN TpRespond(r, 500)
                        ELSE [tpReq EXCEPT ![r].pc = "write"]
            /\ UNCHANGED tpCloud
    /\ UNCHANGED <<teamPictures, tpNextDoc, tpNextPid, tpUniqueIndex>>
    /\ UNCHANGED <<featVars, hvVars, ciVars, rqVars, gdVars, hiVars, rsVars, erVars, upVars, cdVars, uriVars, ccVars>>

\* TeamPicture.create / findByIdAndUpdate / findByIdAndDelete is applied and
\* the response is sent
TpWriteDone(r) ==
    /\ tpReq[r].pc = "write"
    /\ IF tpReq[r].route = "delete"
       THEN /\ teamPictures' = {d \in teamPictures : d._id # tpReq[r].existing}
            /\ tpReq' = TpRespond(r, 200)
            /\ UNCHANGED tpNextDoc
       ELSE IF tpReq[r].existing # 0
       THEN /\ teamPictures' =
                  {IF d._id = tpReq[r].existing
                   THEN [d EXCEPT !.public_id = tpReq[r].cloudinaryData,
                                  !.isActive = TRUE]
                   ELSE d : d \in teamPictures}
            /\ tpReq' = TpRespond(r, 200)
            /\ UNCHANGED tpNextDoc
       ELSE IF tpUniqueIndex /\ teamPictures # {}
       THEN /\ tpReq' = TpRespond(r, 500)
            /\ UNCHANGED <<teamPictures, tpNextDoc>>
       ELSE /\ tpNextDoc <= MaxTpDocs
            /\ teamPictures' = teamPictures \cup
                  {[_id |-> tpNextDoc, public_id |-> tpReq[r].cloudinaryData,
                    isActive |-> TRUE]}
            /\ tpNextDoc' = tpNextDoc + 1
            /\ tpReq' = TpRespond(r, 200)
    /\ UNCHANGED <<tpCloud, tpNextPid, tpUniqueIndex>>
    /\ UNCHANGED <<featVars, hvVars, ciVars, rqVars, gdVars, hiVars, rsVars, erVars, upVars, cdVars, uriVars, ccVars>>

TeamPictureNext ==
    \/ \E r \in TpReqIds, route \in {"post", "put"}, tok \in Tokens,
          file \in TpFiles, valid \in BOOLEAN :
          TpReceiveUpload(r, route, tok, file, valid)
    \/ \E r \in TpReqIds, ok \in BOOLEAN : TpUploadDone(r, ok)
    \/ \E r \in TpReqIds, tok \in Tokens : TpReceiveDelete(r, tok)
    \/ \E r \in TpReqIds, found \in 0..MaxTpDocs : TpFindOneDone(r, found)
    \/ \E r \in TpReqIds, ok \in BOOLEAN : TpDestroyDone(r, ok)
    \/ \E r \in TpReqIds : TpWriteDone(r)

(***************************************************************************)
(* The middleware chains of the POST, PUT and DELETE routes of the content *)
(* and upload routers, as Express runs them: each middleware answers the   *)
(* request, calls next(), or calls next(err); after next(err) only the     *)
(* error-handling middlewares (four parameters) of the rest of the chain   *)
(* run, and an error nobody answers reaches the app's error handler.       *)
(*                                                                         *)
(* The tags of a chain:                                                    *)
(*   auth            middleware/auth.js                                    *)
(*   multer          upload.single / upload.fields / upload.array          *)
(*   uploadError     handleUploadError (error-handling middleware)         *)
(*   multerWrapped   handleMulterUpload of routes/results.js               *)
(*   cloudRequired   handleImageUpload, handleVideoUpload,                 *)
(*                   handleMultipleImageUpload, handleResultsImagesUpload  *)
(*   cloudOptional   handleHeroImageUpload                                 *)
(*   validators      an array of express-validator checks (they only       *)
(*                   record their errors)                                  *)
(*   validate        validateCreateService; the validationResult check     *)
(*                   that ends validateResultsInput                        *)
(*   handler         the route handler                                     *)
(***************************************************************************)
ChainAuthHandler == <<"auth", "handler">>

ChainAuthValidatorsHandler == <<"auth", "validators", "handler">>

\* a variant in which the upload middlewares are mounted ahead of auth
ChainUploadBeforeAuth ==
    <<"multer", "uploadError", "cloudRequired", "auth", "validators", "handler">>

\* auth, uploadSingleImage|uploadSingleVideo, handleUploadError,
\* handleImageUpload|handleVideoUpload, [validators], handler
ChainUploadValidatorsHandler ==
    <<"auth", "multer", "uploadError", "cloudRequired", "validators", "handler">>

\* auth, uploadHeroImages, handleHeroUploadError, handleHeroImageUpload,
\* [validators], handler
ChainHeroImage ==
    <<"auth", "multer", "uploadError", "cloudOptional", "validators", "handler">>

ChainHeroImageNoValidators ==
    <<"auth", "multer", "uploadError", "cloudOptional", "handler">>

\* a variant in which validateCreateService is mounted after the upload
ChainServicesPostValidateLast ==
    <<"auth", "multer", "uploadError", "cloudRequired", "validate", "handler">>

\* auth, uploadMultipleSpecificImages, validateCreateService,
\* handleMultipleUploadError, handleMultipleImageUpload, handler
ChainServicesPost ==
    <<"auth", "multer", "validate", "uploadError", "cloudRequired", "handler">>

\* auth, upload middleware, handleUploadError, upload to Cloudinary, handler
ChainUploadHandler == <<"auth", "multer", "uploadError", "cloudRequired", "handler">>

\* auth, handleMulterUpload, ...validateResultsInput, handleResultsImagesUpload,
\* handler
ChainResultsPost ==
    <<"auth", "multerWrapped", "validators", "validate", "cloudRequired", "handler">>

\* auth, uploadMultipleImages|uploadMultipleVideos, handleUploadError, handler
ChainMultiUpload == <<"auth", "multer", "uploadError", "handler">>

\* What the handler of a route does:
\*   validates    it answers 400 when the text fields are invalid
\*   findFirst    it looks the document up before it validates
\*   lookup       "mustExist": answers missStatus when the document it looks
\*                up is missing; "mustNotExist": answers missStatus when it
\*                is there; "none": no such answer
\*   needsData    it reads req.cloudinaryData without a check
\*   cloudDelete  it deletes from Cloudinary: "never", "always" (when the
\*                document is found), "newFile" (when a file was uploaded)
\*   effects      what it does when it succeeds
Route(chain, validates, findFirst, lookup, missStatus, okStatus, needsData, cloudDelete, effects) ==
    [chain |-> chain, validates |-> validates, findFirst |-> findFirst,
     lookup |-> lookup, missStatus |-> missStatus, okStatus |-> okStatus,
     needsData |-> needsData, cloudDelete |-> cloudDelete, effects |-> effects]

\* the POST, PUT and DELETE routes of routes/heroImage.js
heroImageRoutes ==
       ("POST /api/hero-images" :>
          Route(ChainHeroImage, TRUE, FALSE, "none", 0, 201, TRUE, "never", {"dbWrite"}))
    @@ ("PUT /api/hero-images/:id" :>
          Route(ChainHeroImage, TRUE, FALSE, "mustExist", 404, 200, FALSE, "newFile", {"dbWrite"}))
    @@ ("DELETE /api/hero-images/:id" :>
          Route(ChainAuthHandler, FALSE, FALSE, "mustExist", 404, 200, FALSE, "always", {"dbWrite"}))
    @@ ("PUT /api/hero-images/:id/images" :>
          Route(ChainHeroImageNoValidators, FALSE, FALSE, "mustExist", 404, 200, FALSE, "newFile", {"dbWrite"}))
    @@ ("PUT /api/hero-images/:id/test" :>
          Route(ChainHeroImageNoValidators, FALSE, FALSE, "none", 0, 200, FALSE, "never", {}))

\* the POST, PUT and DELETE routes of routes/heroVideo.js
heroVideoRoutes ==
       ("POST /api/hero-videos" :>
          Route(ChainUploadValidatorsHandler, TRUE, FALSE, "mustNotExist", 400, 201, FALSE, "never", {"dbWrite"}))
    @@ ("PUT /api/hero-videos/update" :>
          Route(ChainUploadValidatorsHandler, TRUE, FALSE, "mustExist", 400, 200, FALSE, "always", {"dbWrite"}))
    @@ ("DELETE /api/hero-videos" :>
          Route(ChainAuthHandler, FALSE, FALSE, "mustExist", 404, 200, FALSE, "always", {"dbWrite"}))

\* the POST, PUT and DELETE routes of routes/partners.js
partnersRoutes ==
       ("POST /api/partners" :>
          Route(ChainUploadValidatorsHandler, TRUE, FALSE, "none", 0, 201, FALSE, "never", {"dbWrite"}))
    @@ ("PUT /api/partners/:id" :>
          Route(ChainAuthValidatorsHandler, TRUE, FALSE, "mustExist", 404, 200, FALSE, "never", {"dbWrite"}))
    @@ ("DELETE /api/partners/:id" :>
          Route(ChainAuthHandler, FALSE, FALSE, "mustExist", 404, 200, FALSE, "always", {"dbWrite"}))

\* the POST, PUT and DELETE routes of routes/team.js
teamRoutes ==
       ("POST /api/team" :>
          Route(ChainUploadValidatorsHandler, TRUE, FALSE, "none", 0, 201, FALSE, "never", {"dbWrite"}))
    @@ ("PUT /api/team/:id" :>
          Route(ChainUploadValidatorsHandler, TRUE, FALSE, "mustExist", 404, 200, FALSE, "newFile", {"dbWrite"}))
    @@ ("DELETE /api/team/:id" :>
          Route(ChainAuthHandler, FALSE, FALSE, "mustExist", 404, 200, FALSE, "always", {"dbWrite"}))

\* the POST, PUT and DELETE routes of routes/teamPictures.js
teamPicturesRoutes ==
       ("POST /api/team-pictures" :>
          Route(ChainUploadValidatorsHandler, TRUE, FALSE, "none", 0, 200, FALSE, "always", {"dbWrite"}))
    @@ ("PUT /api/team-pictures" :>
          Route(ChainUploadValidatorsHandler, TRUE, FALSE, "mustExist", 404, 200, FALSE, "always", {"dbWrite"}))
    @@ ("DELETE /api/team-pictures" :>
          Route(ChainAuthHandler, FALSE, FALSE, "mustExist", 404, 200, FALSE, "always", {"dbWrite"}))

\* the POST, PUT and DELETE routes of routes/features.js
featuresRoutes ==
       ("POST /api/features" :>
          Route(ChainAuthValidatorsHandler, TRUE, FALSE, "mustNotExist", 400, 201, FALSE, "never", {"featureChange"}))
    @@ ("DELETE /api/features/:id" :>
          Route(ChainAuthHandler, FALSE, FALSE, "mustExist", 404, 200, FALSE, "never", {"featureChange"}))

\* the POST, PUT and DELETE routes of routes/faqs.js
faqsRoutes ==
       ("POST /api/faqs" :>
          Route(ChainAuthValidatorsHandler, TRUE, FALSE, "none", 0, 201, FALSE, "never", {"dbWrite"}))
    @@ ("PUT /api/faqs/:id" :>
          Route(ChainAuthValidatorsHandler, TRUE, FALSE, "mustExist", 404, 200, FALSE, "never", {"dbWrite"}))
    @@ ("DELETE /api/faqs/:id" :>
          Route(ChainAuthHandler, FALSE, FALSE, "mustExist", 404, 200, FALSE, "never", {"dbWrite"}))

\* the POST, PUT and DELETE routes of routes/feedback.js
feedbackRoutes ==
       ("POST /api/feedback" :>
          Route(ChainAuthValidatorsHandler, TRUE, FALSE, "none", 0, 201, FALSE, "never", {"dbWrite"}))
    @@ ("PUT /api/feedback/:id" :>
          Route(ChainAuthValidatorsHandler, TRUE, FALSE, "mustExist", 404, 200, FALSE, "never", {"dbWrite"}))
    @@ ("DELETE /api/feedback/:id" :>
          Route(ChainAuthHandler, FALSE, FALSE, "mustExist", 404, 200, FALSE, "never", {"dbWrite"}))

\* the POST, PUT and DELETE routes of routes/services.js
servicesRoutes ==
       ("POST /api/services" :>
          Route(ChainServicesPost, TRUE, FALSE, "none", 0, 201, FALSE, "never", {"dbWrite"}))
    @@ ("PUT /api/services/:id" :>
          Route(ChainAuthHandler, TRUE, TRUE, "mustExist", 404, 200, FALSE, "never", {"dbWrite"}))
    @@ ("DELETE /api/services/:id" :>
          Route(ChainAuthHandler, FALSE, FALSE, "mustExist", 404, 200, FALSE, "always", {"dbWrite"}))

\* the POST, PUT and DELETE routes of routes/blogs.js
blogsRoutes ==
       ("POST /api/blogs" :>
          Route(ChainUploadHandler, TRUE, FALSE, "none", 0, 201, FALSE, "never", {"dbWrite"}))
    @@ ("PUT /api/blogs/:id" :>
          Route(ChainAuthHandler, TRUE, TRUE, "mustExist", 404, 200, FALSE, "never", {"dbWrite"}))
    @@ ("DELETE /api/blogs/:id" :>
          Route(ChainAuthHandler, FALSE, FALSE, "mustExist", 404, 200, FALSE, "always", {"dbWrite"}))

\* the POST, PUT and DELETE routes of routes/clinicInfo.js
clinicInfoRoutes ==
       ("POST /api/clinic-info" :>
          Route(ChainAuthValidatorsHandler, TRUE, FALSE, "mustNotExist", 400, 201, FALSE, "never", {"dbWrite"}))
    @@ ("PUT /api/clinic-info/update" :>
          Route(ChainAuthValidatorsHandler, TRUE, FALSE, "mustExist", 400, 200, FALSE, "never", {"dbWrite"}))
    @@ ("DELETE /api/clinic-info" :>
          Route(ChainAuthHandler, FALSE, FALSE, "mustExist", 404, 200, FALSE, "never", {"dbWrite"}))

\* the POST, PUT and DELETE routes of routes/results.js
resultsRoutes ==
       ("POST /api/results" :>
          Route(ChainResultsPost, TRUE, FALSE, "none", 0, 201, FALSE, "never", {"dbWrite"}))
    @@ ("DELETE /api/results/:id" :>
          Route(ChainAuthHandler, FALSE, FALSE, "mustExist", 404, 200, FALSE, "always", {"dbWrite"}))

\* the POST, PUT and DELETE routes of routes/upload.js
uploadRoutes ==
       ("POST /api/upload/image" :>
          Route(ChainUploadHandler, FALSE, FALSE, "none", 0, 200, FALSE, "never", {}))
    @@ ("POST /api/upload/images" :>
          Route(ChainMultiUpload, FALSE, FALSE, "none", 0, 200, FALSE, "never", {"cloudUpload"}))
    @@ ("POST /api/upload/video" :>
          Route(ChainUploadHandler, FALSE, FALSE, "none", 0, 200, FALSE, "never", {}))
    @@ ("POST /api/upload/videos" :>
          Route(ChainMultiUpload, FALSE, FALSE, "none", 0, 200, FALSE, "never", {"cloudUpload"}))

RouteTable ==
    heroImageRoutes
    @@ heroVideoRoutes
    @@ partnersRoutes
    @@ teamRoutes
    @@ teamPicturesRoutes
    @@ featuresRoutes
    @@ faqsRoutes
    @@ feedbackRoutes
    @@ servicesRoutes
    @@ blogsRoutes
    @@ clinicInfoRoutes
    @@ resultsRoutes
    @@ uploadRoutes

RouteNames == DOMAIN RouteTable

RouteOf(name) == RouteTable[name]

\* what multer makes of the multipart body: no file, the files of the route,
\* an error that the route's handleUploadError answers with 400, or an error
\* that it passes on with next(error)
RqFiles == {"none", "ok", "error", "unhandled"}

RqNone == [route |-> "none", tok |-> "none", files |-> "none", valid |-> FALSE,
           found |-> FALSE, cloudOk |-> FALSE, pos |-> 0, err |-> FALSE,
           status |-> 0, uploadCalled |-> FALSE, cloudDeleted |-> FALSE,
           dbWritten |-> FALSE, featChanged |-> FALSE]

RoutesInit == rq = RqNone

RqInFlight == rq.route # "none" /\ rq.status = 0

RqChain == RouteOf(rq.route).chain

\* the middleware the request is at
RqAt(tag) ==
    /\ RqInFlight
    /\ rq.pos <= Len(RqChain)
    /\ RqChain[rq.pos] = tag

\* Express: an error-handling middleware has four parameters
IsErrorMiddleware(tag) == tag = "uploadError"

\* next() and next(err): the next middleware of the chain that takes the
\* request, after position pos; Len(chain) + 1 when there is none
NextPos(chain, pos, err) ==
    LET later == {i \in (pos + 1)..Len(chain) : IsErrorMiddleware(chain[i]) = err}
    IN  IF later = {} THEN Len(chain) + 1
        ELSE CHOOSE i \in later : \A j \in later : i <= j

RqNext(err) == [rq EXCEPT !.pos = NextPos(RqChain, rq.pos, err), !.err = err]

RqRespond(status) == [rq EXCEPT !.status = status]

\* a request arrives at a route
RqReceive(name, tok, files, valid, found, cloudOk) ==
    /\ rq = RqNone
    /\ rq' = [RqNone EXCEPT !.route = name, !.tok = tok, !.files = files,
                            !.valid = valid, !.found = found, !.cloudOk = cloudOk,
                            !.pos = NextPos(RouteOf(name).chain, 0, FALSE)]
    /\ UNCHANGED <<featVars, hvVars, ciVars, tpVars, gdVars, hiVars, rsVars, erVars, upVars, cdVars, uriVars, ccVars>>

\* auth: 401 unless the token is valid
RunAuth ==
    /\ RqAt("auth")
    /\ rq' = IF auth(rq.tok) THEN RqNext(FALSE) ELSE RqRespond(401)
    /\ UNCHANGED <<featVars, hvVars, ciVars, tpVars, gdVars, hiVars, rsVars, erVars, upVars, cdVars, uriVars, ccVars>>

\* multer: next(err) on an error, next() otherwise
RunMulter ==
    /\ RqAt("multer")
    /\ rq' = RqNext(rq.files \in {"error", "unhandled"})
    /\ UNCHANGED <<featVars, hvVars, ciVars, tpVars, gdVars, hiVars, rsVars, erVars, upVars, cdVars, uriVars, ccVars>>

\* handleUploadError: 400 for the errors it knows, next(error) for the others
RunUploadError ==
    /\ RqAt("uploadError")
    /\ rq' = IF rq.files = "error" THEN RqRespond(400) ELSE RqNext(TRUE)
    /\ UNCHANGED <<featVars, hvVars, ciVars, tpVars, gdVars, hiVars, rsVars, erVars, upVars, cdVars, uriVars, ccVars>>

\* handleMulterUpload: runs multer and hands its error to handleUploadError
RunMulterWrapped ==
    /\ RqAt("multerWrapped")
    /\ rq' = CASE rq.files = "error" -> RqRespond(400)
               [] rq.files = "unhandled" -> RqNext(TRUE)
               [] OTHER -> RqNext(FALSE)
    /\ UNCHANGED <<featVars, hvVars, ciVars, tpVars, gdVars, hiVars, rsVars, erVars, upVars, cdVars, uriVars, ccVars>>

\* handleImageUpload and its like: 400 without a file, else the upload to
\* Cloudinary, 500 when it fails
RunCloudRequired ==
    /\ RqAt("cloudRequired")
    /\ rq' = IF rq.files = "none" THEN RqRespond(400)
             ELSE IF rq.cloudOk THEN [RqNext(FALSE) EXCEPT !.uploadCalled = TRUE]
             ELSE [RqRespond(500) EXCEPT !.uploadCalled = TRUE]
    /\ UNCHANGED <<featVars, hvVars, ciVars, tpVars, gdVars, hiVars, rsVars, erVars, upVars, cdVars, uriVars, ccVars>>

\* handleHeroImageUpload: files are optional
RunCloudOptional ==
    /\ RqAt("cloudOptional")
    /\ rq' = IF rq.files = "none" THEN RqNext(FALSE)
             ELSE IF rq.cloudOk THEN [RqNext(FALSE) EXCEPT !.uploadCalled = TRUE]
             ELSE [RqRespond(500) EXCEPT !.uploadCalled = TRUE]
    /\ UNCHANGED <<featVars, hvVars, ciVars, tpVars, gdVars, hiVars, rsVars, erVars, upVars, cdVars, uriVars, ccVars>>

\* express-validator checks: they record their errors and call next()
RunValidators ==
    /\ RqAt("validators")
    /\ rq' = RqNext(FALSE)
    /\ UNCHANGED <<featVars, hvVars, ciVars, tpVars, gdVars, hiVars, rsVars, erVars, upVars, cdVars, uriVars, ccVars>>

\* validateCreateService, and the check that ends validateResultsInput: 400
\* when the text fields are invalid
RunValidate ==
    /\ RqAt("validate")
    /\ rq' = IF rq.valid THEN RqNext(FALSE) ELSE RqRespond(400)
    /\ UNCHANGED <<featVars, hvVars, ciVars, tpVars, gdVars, hiVars, rsVars, erVars, upVars, cdVars, uriVars, ccVars>>

\* the status the route handler answers with
HandlerStatus ==
    LET rt == RouteOf(rq.route)
        miss == \/ rt.lookup = "mustExist" /\ ~rq.found
                \/ rt.lookup = "mustNotExist" /\ rq.found
        invalid == rt.validates /\ ~rq.valid
        uploads == "cloudUpload" \in rt.effects
    IN  IF invalid /\ ~rt.findFirst THEN 400
        ELSE IF uploads /\ rq.files = "none" THEN 400
        ELSE IF uploads /\ ~rq.cloudOk THEN 500
        ELSE IF miss THEN rt.missStatus
        ELSE IF invalid THEN 400
        ELSE IF rt.needsData /\ rq.files = "none" THEN 500
        ELSE rt.okStatus

\* the route handler: its answer and what it did on the way
RunHandler ==
    /\ RqAt("handler")
    /\ LET rt == RouteOf(rq.route)
           done == HandlerStatus = rt.okStatus
       IN  rq' = [rq EXCEPT
                    !.status = HandlerStatus,
                    !.uploadCalled = rq.uploadCalled
                        \/ ("cloudUpload" \in rt.effects /\ rq.files # "none"),
                    !.cloudDeleted = done /\ (\/ rt.cloudDelete = "always" /\ rq.found
                                              \/ rt.cloudDelete = "newFile"
                                                   /\ rq.files = "ok"),
                    !.dbWritten = done /\ "dbWrite" \in rt.effects,
                    !.featChanged = done /\ "featureChange" \in rt.effects]
    /\ UNCHANGED <<featVars, hvVars, ciVars, tpVars, gdVars, hiVars, rsVars, erVars, upVars, cdVars, uriVars, ccVars>>

\* the app's error-handling middleware answers what no one has answered
AppErrorHandler ==
    /\ RqInFlight
    /\ rq.pos > Len(RqChain)
    /\ rq' = RqRespond(500)
    /\ UNCHANGED <<featVars, hvVars, ciVars, tpVars, gdVars, hiVars, rsVars, erVars, upVars, cdVars, uriVars, ccVars>>

\* the response has been sent: the request is over
RqFinish ==
    /\ rq.status # 0
    /\ rq' = RqNone
    /\ UNCHANGED <<featVars, hvVars, ciVars, tpVars, gdVars, hiVars, rsVars, erVars, upVars, cdVars, uriVars, ccVars>>

RoutesNext ==
    \/ \E name \in RouteNames, tok \in Tokens, files \in RqFiles,
          valid \in BOOLEAN, found \in BOOLEAN, cloudOk \in BOOLEAN :
          RqReceive(name, tok, files, valid, found, cloudOk)
    \/ RunAuth
    \/ RunMulter
    \/ RunUploadError
    \/ RunMulterWrapped
    \/ RunCloudRequired
    \/ RunCloudOptional
    \/ RunValidators
    \/ RunValidate
    \/ RunHandler
    \/ AppErrorHandler
    \/ RqFinish

(***************************************************************************)
(* The DB-readiness guards: ensureDbConnected of server.js and of the two  *)
(* versions of api/index.js, with the connection state they read.          *)
(***************************************************************************)
MaxGdReq == 2

GdReqIds == 1..MaxGdReq

Entrypoints == {"server", "apiV1", "apiV2"}

GdIdle == [pc |-> "idle", status |-> 0, handlerRan |-> FALSE, dbUp |-> FALSE]

GuardInit ==
    /\ gd = [entry |-> "none", hasUri |-> FALSE, readyState |-> 0,
             conn |-> FALSE, promise |-> "none", established |-> FALSE]
    /\ gdReq = [r \in GdReqIds |-> GdIdle]

\* next(): the request goes on to its route handler; readyState is mongoose's
\* connection state at that moment
GdNext(readyState) ==
    [pc |-> "done", status |-> 200, handlerRan |-> TRUE, dbUp |-> readyState = 1]

\* res.status(503)
Gd503 == [pc |-> "done", status |-> 503, handlerRan |-> FALSE, dbUp |-> FALSE]

GdAwait == [GdIdle EXCEPT !.pc = "awaitConnect"]

\* the process starts: with a connection string, server.js calls
\* mongoose.connect and api/index.js calls connectDB()
GdBoot(entry, hasUri) ==
    /\ gd.entry = "none"
    /\ gd' = [gd EXCEPT !.entry = entry, !.hasUri = hasUri,
                        !.readyState = IF hasUri THEN 2 ELSE 0,
                        !.promise = IF hasUri /\ entry # "server"
                                    THEN "pending" ELSE "none"]
    /\ UNCHANGED <<gdReq, featVars, hvVars, ciVars, tpVars, rqVars, hiVars, rsVars, erVars, upVars, cdVars, uriVars, ccVars>>

\* a request to a guarded /api route arrives
GdReceive(r) ==
    /\ gd.entry # "none"
    /\ gdReq[r].pc = "idle"
    /\ gdReq' = [gdReq EXCEPT ![r] = [GdIdle EXCEPT !.pc = "guard"]]
    /\ UNCHANGED <<gd, featVars, hvVars, ciVars, tpVars, rqVars, hiVars, rsVars, erVars, upVars, cdVars, uriVars, ccVars>>

\* server.js ensureDbConnected, up to its await
GdGuardServer(r) ==
    /\ gd.entry = "server"
    /\ gdReq[r].pc = "guard"
    /\ IF ~gd.hasUri
       THEN gdReq' = [gdReq EXCEPT ![r] = Gd503] /\ UNCHANGED gd
       ELSE IF gd.readyState = 1
       THEN gdReq' = [gdReq EXCEPT ![r] = GdNext(gd.readyState)] /\ UNCHANGED gd
       ELSE /\ gdReq' = [gdReq EXCEPT ![r] = GdAwait]
            /\ gd' = [gd EXCEPT !.readyState = 2]
    /\ UNCHANGED <<featVars, hvVars, ciVars, tpVars, rqVars, hiVars, rsVars, erVars, upVars, cdVars, uriVars, ccVars>>

\* connectDB of api/index.js, up to its await: "null" without a connection
\* string, "await" while the promise is pending, else the promise's value
ConnectDBResult ==
    IF gd.conn THEN "conn"
    ELSE IF ~gd.hasUri THEN "null"
    ELSE IF gd.promise \in {"none", "pending"} THEN "await"
    ELSE IF gd.promise = "resolvedOk" THEN "conn" ELSE "null"

\* what connectDB leaves in cached and in mongoose's readyState
ConnectDBEffect ==
    IF gd.conn \/ ~gd.hasUri THEN gd
    ELSE IF gd.promise = "none"
    THEN [gd EXCEPT !.promise = "pending", !.readyState = 2]
    ELSE IF gd.promise = "pending" THEN gd
    ELSE [gd EXCEPT !.conn = gd.promise = "resolvedOk"]

\* api/index.js, first version: ensureDbConnected answers 503 when cached.conn
\* is still empty after connectDB
GdGuardApiV1(r) ==
    /\ gd.entry = "apiV1"
    /\ gdReq[r].pc = "guard"
    /\ gd' = ConnectDBEffect
    /\ gdReq' = [gdReq EXCEPT ![r] =
                   CASE ConnectDBResult = "await" -> GdAwait
                     [] ConnectDBResult = "conn" -> GdNext(gd.readyState)
                     [] OTHER -> Gd503]
    /\ UNCHANGED <<featVars, hvVars, ciVars, tpVars, rqVars, hiVars, rsVars, erVars, upVars, cdVars, uriVars, ccVars>>

\* api/index.js, second version: ensureDbConnected calls next() after
\* connectDB whatever it returned
GdGuardApiV2(r) ==
    /\ gd.entry = "apiV2"
    /\ gdReq[r].pc = "guard"
    /\ gd' = ConnectDBEffect
    /\ gdReq' = [gdReq EXCEPT ![r] =
                   IF ConnectDBResult = "await" THEN GdAwait
                   ELSE GdNext(gd.readyState)]
    /\ UNCHANGED <<featVars, hvVars, ciVars, tpVars, rqVars, hiVars, rsVars, erVars, upVars, cdVars, uriVars, ccVars>>

\* the connection attempt ends; the awaits on it continue at once
GdConnectSettle(ok) ==
    /\ gd.readyState = 2
    /\ LET rs == IF ok THEN 1 ELSE 0
       IN  /\ gd' = [gd EXCEPT
                       !.readyState = rs,
                       !.established = @ \/ ok,
                       !.promise = IF gd.entry = "server" THEN @
                                   ELSE IF ok THEN "resolvedOk" ELSE "resolvedNull",
                       !.conn = IF gd.entry = "server" THEN @ ELSE ok]
           /\ gdReq' = [r \in GdReqIds |->
                          IF gdReq[r].pc # "awaitConnect" THEN gdReq[r]
                          ELSE IF ok \/ gd.entry = "apiV2" THEN GdNext(rs)
                          ELSE Gd503]
    /\ UNCHANGED <<featVars, hvVars, ciVars, tpVars, rqVars, hiVars, rsVars, erVars, upVars, cdVars, uriVars, ccVars>>

\* the connection to MongoDB is lost: the 'disconnected' listeners only log
GdDisconnect ==
    /\ gd.readyState = 1
    /\ gd' = [gd EXCEPT !.readyState = 0]
    /\ UNCHANGED <<gdReq, featVars, hvVars, ciVars, tpVars, rqVars, hiVars, rsVars, erVars, upVars, cdVars, uriVars, ccVars>>

\* the driver reconnects
GdReconnect ==
    /\ gd.readyState = 0
    /\ gd.established
    /\ gd' = [gd EXCEPT !.readyState = 1]
    /\ UNCHANGED <<gdReq, featVars, hvVars, ciVars, tpVars, rqVars, hiVars, rsVars, erVars, upVars, cdVars, uriVars, ccVars>>

\* the response has been sent
GdFinish(r) ==
    /\ gdReq[r].pc = "done"
    /\ gdReq' = [gdReq EXCEPT ![r] = GdIdle]
    /\ UNCHANGED <<gd, featVars, hvVars, ciVars, tpVars, rqVars, hiVars, rsVars, erVars, upVars, cdVars, uriVars, ccVars>>

GuardNext ==
    \/ \E entry \in Entrypoints, hasUri \in BOOLEAN : GdBoot(entry, hasUri)
    \/ \E r \in GdReqIds : GdReceive(r)
    \/ \E r \in GdReqIds : GdGuardServer(r)
    \/ \E r \in GdReqIds : GdGuardApiV1(r)
    \/ \E r \in GdReqIds : GdGuardApiV2(r)
    \/ \E ok \in BOOLEAN : GdConnectSettle(ok)
    \/ GdDisconnect
    \/ GdReconnect
    \/ \E r \in GdReqIds : GdFinish(r)

(***************************************************************************)
(* routes/heroImage.js with middleware/uploadHeroImages.js: the HeroImage  *)
(* collection and the images of its documents in Cloudinary.               *)
(***************************************************************************)
MaxHiDocs == 2
MaxHiPids == 4

\* the file fields of a multipart request
HiFileFields == {"image", "mobileImage"}

\* public_ids a client can write into the body of its request
HiClientPids == {0}

\* an image or mobileImage field of the request body: absent, or an object
\* with a public_id (and the url that goes with it)
HiBodyImages == {<<>>} \cup {<<p>> : p \in HiClientPids}

HeroImageInit ==
    /\ heroImages = {}
    /\ hiCloud = {}
    /\ hiNextDoc = 1
    /\ hiNextPid = 1
    /\ hiLast = [op |-> "none", status |-> 0, id |-> 0, files |-> {},
                 image |-> 0, mobileImage |-> 0]

HiAnswer(op, status, id, files, image, mobileImage) ==
    [op |-> op, status |-> status, id |-> id, files |-> files,
     image |-> image, mobileImage |-> mobileImage]

\* handleHeroImageUpload: the public_ids Cloudinary gives to the files of
\* the request, as req.cloudinaryData
HiCloudinaryData(files) ==
    [f \in files |-> IF f = "image" THEN hiNextPid
                     ELSE hiNextPid + (IF "image" \in files THEN 1 ELSE 0)]

\* POST /api/hero-images
PostHeroImage(tok, files, cloudOk, valid) ==
    /\ hiNextDoc <= MaxHiDocs
    /\ hiNextPid + Cardinality(files) - 1 <= MaxHiPids
    /\ LET data == HiCloudinaryData(files)
           uploaded == {data[f] : f \in files}
       IN  IF ~auth(tok)
           THEN /\ hiLast' = HiAnswer("post", 401, 0, files, 0, 0)
                /\ UNCHANGED <<heroImages, hiCloud, hiNextDoc, hiNextPid>>
           ELSE IF files # {} /\ ~cloudOk
           THEN /\ hiLast' = HiAnswer("post", 500, 0, files, 0, 0)
                /\ UNCHANGED <<heroImages, hiCloud, hiNextDoc, hiNextPid>>
           ELSE IF ~valid
           THEN /\ hiLast' = HiAnswer("post", 400, 0, files, 0, 0)
                /\ hiCloud' = hiCloud \cup uploaded
                /\ hiNextPid' = hiNextPid + Cardinality(files)
                /\ UNCHANGED <<heroImages, hiNextDoc>>
           ELSE IF files # HiFileFields
           THEN /\ hiLast' = HiAnswer("post", 500, 0, files, 0, 0)
                /\ hiCloud' = hiCloud \cup uploaded
                /\ hiNextPid' = hiNextPid + Cardinality(files)
                /\ UNCHANGED <<heroImages, hiNextDoc>>
           ELSE /\ heroImages' = heroImages \cup
                      {[id |-> hiNextDoc, image |-> data["image"],
                        mobileImage |-> data["mobileImage"]]}
                /\ hiCloud' = hiCloud \cup uploaded
                /\ hiNextDoc' = hiNextDoc + 1
                /\ hiNextPid' = hiNextPid + Cardinality(files)
                /\ hiLast' = HiAnswer("post", 201, hiNextDoc, files,
                                      data["image"], data["mobileImage"])
    /\ UNCHANGED <<featVars, hvVars, ciVars, tpVars, rqVars, gdVars, rsVars, erVars, upVars, cdVars, uriVars, ccVars>>

\* updateData of PUT /api/hero-images/:id: the body, and over it the images
\* of req.cloudinaryData
HiUpdateData(bodyImage, bodyMobile, data) ==
    [image |-> IF "image" \in DOMAIN data THEN <<data["image"]>> ELSE bodyImage,
     mobileImage |-> IF "mobileImage" \in DOMAIN data THEN <<data["mobileImage"]>>
                     ELSE bodyMobile]

\* findByIdAndUpdate(id, updateData): the fields updateData names are set
HiUpdated(d, updateData) ==
    [d EXCEPT !.image = IF updateData.image = <<>> THEN @ ELSE updateData.image[1],
              !.mobileImage = IF updateData.mobileImage = <<>> THEN @
                              ELSE updateData.mobileImage[1]]

\* PUT /api/hero-images/:id
PutHeroImage(tok, id, files, cloudOk, valid, bodyImage, bodyMobile, destroyOk) ==
    /\ hiNextPid + Cardinality(files) - 1 <= MaxHiPids
    /\ LET data == HiCloudinaryData(files)
           uploaded == {data[f] : f \in files}
           found == {d \in heroImages : d.id = id}
       IN  IF ~auth(tok)
           THEN /\ hiLast' = HiAnswer("put", 401, id, files, 0, 0)
                /\ UNCHANGED <<heroImages, hiCloud, hiNextDoc, hiNextPid>>
           ELSE IF files # {} /\ ~cloudOk
           THEN /\ hiLast' = HiAnswer("put", 500, id, files, 0, 0)
                /\ UNCHANGED <<heroImages, hiCloud, hiNextDoc, hiNextPid>>
           ELSE IF ~valid \/ found = {}
           THEN /\ hiLast' = HiAnswer("put", IF ~valid THEN 400 ELSE 404, id, files, 0, 0)
                /\ hiCloud' = hiCloud \cup uploaded
                /\ hiNextPid' = hiNextPid + Cardinality(files)
                /\ UNCHANGED <<heroImages, hiNextDoc>>
           ELSE LET d == CHOOSE x \in found : TRUE
                    old == {d[f] : f \in files}
                IN  IF files # {} /\ ~destroyOk
                    THEN /\ hiLast' = HiAnswer("put", 500, id, files,
                                               d.image, d.mobileImage)
                         /\ hiCloud' = hiCloud \cup uploaded
                         /\ hiNextPid' = hiNextPid + Cardinality(files)
                         /\ UNCHANGED <<heroImages, hiNextDoc>>
                    ELSE /\ heroImages' = (heroImages \ {d}) \cup
                               {HiUpdated(d, HiUpdateData(bodyImage, bodyMobile, data))}
                         /\ hiCloud' = (hiCloud \ old) \cup uploaded
                         /\ hiNextPid' = hiNextPid + Cardinality(files)
                         /\ hiLast' = HiAnswer("put", 200, id, files,
                                               d.image, d.mobileImage)
                         /\ UNCHANGED hiNextDoc
    /\ UNCHANGED <<featVars, hvVars, ciVars, tpVars, rqVars, gdVars, rsVars, erVars, upVars, cdVars, uriVars, ccVars>>

\* DELETE /api/hero-images/:id
DeleteHeroImage(tok, id, destroyOk) ==
    /\ LET found == {d \in heroImages : d.id = id}
       IN  IF ~auth(tok)
           THEN /\ hiLast' = HiAnswer("delete", 401, id, {}, 0, 0)
                /\ UNCHANGED <<heroImages, hiCloud>>
           ELSE IF found = {}
           THEN /\ hiLast' = HiAnswer("delete", 404, id, {}, 0, 0)
                /\ UNCHANGED <<heroImages, hiCloud>>
           ELSE LET d == CHOOSE x \in found : TRUE
                IN  IF ~destroyOk
                    THEN /\ hiLast' = HiAnswer("delete", 500, id, {},
                                               d.image, d.mobileImage)
                         /\ UNCHANGED <<heroImages, hiCloud>>
                    ELSE /\ heroImages' = heroImages \ {d}
                         /\ hiCloud' = hiCloud \ {d.image, d.mobileImage}
                         /\ hiLast' = HiAnswer("delete", 200, id, {},
                                               d.image, d.mobileImage)
    /\ UNCHANGED <<hiNextDoc, hiNextPid>>
    /\ UNCHANGED <<featVars, hvVars, ciVars, tpVars, rqVars, gdVars, rsVars, erVars, upVars, cdVars, uriVars, ccVars>>

HeroImageNext ==
    \/ \E tok \in Tokens, files \in SUBSET HiFileFields, cloudOk \in BOOLEAN,
          valid \in BOOLEAN : PostHeroImage(tok, files, cloudOk, valid)
    \/ \E tok \in Tokens, id \in 1..MaxHiDocs, files \in SUBSET HiFileFields,
          cloudOk \in BOOLEAN, valid \in BOOLEAN, bodyImage \in HiBodyImages,
          bodyMobile \in HiBodyImages, destroyOk \in BOOLEAN :
          PutHeroImage(tok, id, files, cloudOk, valid, bodyImage, bodyMobile, destroyOk)
    \/ \E tok \in Tokens, id \in 1..MaxHiDocs, destroyOk \in BOOLEAN :
          DeleteHeroImage(tok, id, destroyOk)

(***************************************************************************)
(* routes/results.js with middleware/uploadResultsImages.js: the Results   *)
(* collection and the before/after images of its documents in Cloudinary.  *)
(***************************************************************************)
MaxRsDocs == 2
MaxRsPids == 4

\* the file fields of a multipart request
RsFileFields == {"beforeImage", "afterImage"}

\* what cloudinary.uploader.destroy does for the two images of a document
RsDestroyOutcomes == {"ok", "beforeFails", "afterFails"}

ResultsInit ==
    /\ results = {}
    /\ rsCloud = {}
    /\ rsNextDoc = 1
    /\ rsNextPid = 1
    /\ rsLast = [op |-> "none", status |-> 0, id |-> 0, existed |-> FALSE,
                 authed |-> FALSE, destroy |-> "ok", dbOk |-> TRUE]

RsAnswer(op, status, id, existed, authed, destroy, dbOk) ==
    [op |-> op, status |-> status, id |-> id, existed |-> existed,
     authed |-> authed, destroy |-> destroy, dbOk |-> dbOk]

\* POST /api/results: auth, handleMulterUpload, validateResultsInput,
\* handleResultsImagesUpload, handler
PostResult(tok, files, valid, cloudOk, dbOk) ==
    /\ rsNextDoc <= MaxRsDocs
    /\ rsNextPid + 1 <= MaxRsPids
    /\ IF ~auth(tok)
       THEN /\ rsLast' = RsAnswer("post", 401, 0, FALSE, FALSE, "ok", dbOk)
            /\ UNCHANGED <<results, rsCloud, rsNextDoc, rsNextPid>>
       ELSE IF ~valid \/ files # RsFileFields
       THEN /\ rsLast' = RsAnswer("post", 400, 0, FALSE, TRUE, "ok", dbOk)
            /\ UNCHANGED <<results, rsCloud, rsNextDoc, rsNextPid>>
       ELSE IF ~cloudOk
       THEN /\ rsLast' = RsAnswer("post", 500, 0, FALSE, TRUE, "ok", dbOk)
            /\ UNCHANGED <<results, rsCloud, rsNextDoc, rsNextPid>>
       ELSE IF ~dbOk
       THEN /\ rsLast' = RsAnswer("post", 500, 0, FALSE, TRUE, "ok", dbOk)
            /\ rsCloud' = rsCloud \cup {rsNextPid, rsNextPid + 1}
            /\ rsNextPid' = rsNextPid + 2
            /\ UNCHANGED <<results, rsNextDoc>>
       ELSE /\ results' = results \cup
                  {[id |-> rsNextDoc, beforeImage |-> rsNextPid,
                    afterImage |-> rsNextPid + 1]}
            /\ rsCloud' = rsCloud \cup {rsNextPid, rsNextPid + 1}
            /\ rsNextDoc' = rsNextDoc + 1
            /\ rsNextPid' = rsNextPid + 2
            /\ rsLast' = RsAnswer("post", 201, rsNextDoc, FALSE, TRUE, "ok", dbOk)
    /\ UNCHANGED <<featVars, hvVars, ciVars, tpVars, rqVars, gdVars, hiVars, erVars, upVars, cdVars, uriVars, ccVars>>

\* the public_ids the two deleteImage calls of the DELETE handler remove:
\* the second call is not made when the first one throws
RsDestroyed(d, destroy) ==
    CASE destroy = "ok" -> {d.beforeImage, d.afterImage}
      [] destroy = "afterFails" -> {d.beforeImage}
      [] OTHER -> {}

\* a variant of the handler that gives up when Cloudinary fails
RsProceedsOnlyWhenDestroyed(destroy) == destroy = "ok"

\* the catch around the deleteImage calls logs the error and goes on
RsProceedsAfterDestroy(destroy) == TRUE

\* DELETE /api/results/:id
DeleteResult(tok, id, destroy, dbOk) ==
    /\ LET found == {d \in results : d.id = id}
       IN  IF ~auth(tok)
           THEN /\ rsLast' = RsAnswer("delete", 401, id, found # {}, FALSE, destroy, dbOk)
                /\ UNCHANGED <<results, rsCloud>>
           ELSE IF found = {}
           THEN /\ rsLast' = RsAnswer("delete", 404, id, FALSE, TRUE, destroy, dbOk)
                /\ UNCHANGED <<results, rsCloud>>
           ELSE LET d == CHOOSE x \in found : TRUE
                IN  IF ~RsProceedsAfterDestroy(destroy)
                    THEN /\ rsLast' = RsAnswer("delete", 500, id, TRUE, TRUE, destroy, dbOk)
                         /\ rsCloud' = rsCloud \ RsDestroyed(d, destroy)
                         /\ UNCHANGED results
                    ELSE IF ~dbOk
                    THEN /\ rsLast' = RsAnswer("delete", 500, id, TRUE, TRUE, destroy, dbOk)
                         /\ rsCloud' = rsCloud \ RsDestroyed(d, destroy)
                         /\ UNCHANGED results
                    ELSE /\ results' = results \ {d}
                         /\ rsCloud' = rsCloud \ RsDestroyed(d, destroy)
                         /\ rsLast' = RsAnswer("delete", 200, id, TRUE, TRUE, destroy, dbOk)
    /\ UNCHANGED <<rsNextDoc, rsNextPid>>
    /\ UNCHANGED <<featVars, hvVars, ciVars, tpVars, rqVars, gdVars, hiVars, erVars, upVars, cdVars, uriVars, ccVars>>

ResultsNext ==
    \/ \E tok \in Tokens, files \in SUBSET RsFileFields, valid \in BOOLEAN,
          cloudOk \in BOOLEAN, dbOk \in BOOLEAN :
          PostResult(tok, files, valid, cloudOk, dbOk)
    \/ \E tok \in Tokens, id \in 1..MaxRsDocs, destroy \in RsDestroyOutcomes,
          dbOk \in BOOLEAN : DeleteResult(tok, id, destroy, dbOk)

(***************************************************************************)
(* The app-level middleware of the entrypoints and the body of the         *)
(* responses: rate limiter, CORS, body parser, guard, routers, 404 handler *)
(* and error-handling middleware of server.js and of api/index.js.         *)
(***************************************************************************)
ErOrigins == {"none", "allowed", "blocked"}

ErBodies == {"ok", "malformed"}

ErPaths == {"route", "unknown"}

\* what the route does with the request: it answers 2xx, 4xx or 5xx, or it
\* passes an error on with next(error)
ErOutcomes == {"ok", "clientError", "serverError", "passError"}

ErNone == [entry |-> "none", origin |-> "none", overLimit |-> FALSE,
           body |-> "ok", path |-> "route", dbUp |-> FALSE, outcome |-> "ok",
           stage |-> "none", status |-> 0, success |-> "absent"]

ErrorsInit == er = ErNone

\* res.status(status).json(...) with its success field: "true", "false", or
\* "absent" when the body has no such field
ErRespond(status, success) ==
    [er EXCEPT !.stage = "done", !.status = status, !.success = success]

ErStage(stage) == [er EXCEPT !.stage = stage]

ErReceive(entry, origin, overLimit, body, path, dbUp, outcome) ==
    /\ er = ErNone
    /\ er' = [ErNone EXCEPT !.entry = entry, !.origin = origin,
                            !.overLimit = overLimit, !.body = body,
                            !.path = path, !.dbUp = dbUp, !.outcome = outcome,
                            !.stage = "limiter"]
    /\ UNCHANGED <<featVars, hvVars, ciVars, tpVars, rqVars, gdVars, hiVars, rsVars, upVars, cdVars, uriVars, ccVars>>

\* express-rate-limit: 429 with the message string as the body
ErLimiter ==
    /\ er.stage = "limiter"
    /\ er' = IF er.overLimit THEN ErRespond(429, "absent") ELSE ErStage("cors")
    /\ UNCHANGED <<featVars, hvVars, ciVars, tpVars, rqVars, gdVars, hiVars, rsVars, upVars, cdVars, uriVars, ccVars>>

\* server.js: cors(corsOptions) passes the error 'Not allowed by CORS' on for
\* an origin that is not allowed; api/index.js reflects every origin
ErCors ==
    /\ er.stage = "cors"
    /\ er' = IF er.entry = "server" /\ er.origin = "blocked"
             THEN ErStage("corsError") ELSE ErStage("body")
    /\ UNCHANGED <<featVars, hvVars, ciVars, tpVars, rqVars, gdVars, hiVars, rsVars, upVars, cdVars, uriVars, ccVars>>

\* express.json: a body that does not parse is passed on as an error
ErBodyParser ==
    /\ er.stage = "body"
    /\ er' = IF er.body = "malformed" THEN ErStage("error")
             ELSE IF er.path = "route" THEN ErStage("guard")
             ELSE ErStage("notFound")
    /\ UNCHANGED <<featVars, hvVars, ciVars, tpVars, rqVars, gdVars, hiVars, rsVars, upVars, cdVars, uriVars, ccVars>>

\* ensureDbConnected in front of the routers: 503 with success false
ErGuard ==
    /\ er.stage = "guard"
    /\ er' = IF er.dbUp \/ er.entry = "apiV2" THEN ErStage("route")
             ELSE ErRespond(503, "false")
    /\ UNCHANGED <<featVars, hvVars, ciVars, tpVars, rqVars, gdVars, hiVars, rsVars, upVars, cdVars, uriVars, ccVars>>

\* a route of a router: its own answers carry success, true or false
ErRoute ==
    /\ er.stage = "route"
    /\ er' = CASE er.outcome = "ok" -> ErRespond(200, "true")
               [] er.outcome = "clientError" -> ErRespond(400, "false")
               [] er.outcome = "serverError" -> ErRespond(500, "false")
               [] OTHER -> ErStage("error")
    /\ UNCHANGED <<featVars, hvVars, ciVars, tpVars, rqVars, gdVars, hiVars, rsVars, upVars, cdVars, uriVars, ccVars>>

\* app.use('*', ...): the 404 handler
ErNotFound ==
    /\ er.stage = "notFound"
    /\ er' = ErRespond(404, "absent")
    /\ UNCHANGED <<featVars, hvVars, ciVars, tpVars, rqVars, gdVars, hiVars, rsVars, upVars, cdVars, uriVars, ccVars>>

\* the success field that the error-handling middleware of the entrypoint
\* puts into its body
ErHandlerSuccess(entry) == IF entry = "apiV1" THEN "false" ELSE "absent"

\* app.use((err, req, res, next) => ...): 403 for the CORS error, else 500
ErErrorHandler ==
    /\ er.stage \in {"corsError", "error"}
    /\ er' = ErRespond(IF er.stage = "corsError" THEN 403 ELSE 500,
                       ErHandlerSuccess(er.entry))
    /\ UNCHANGED <<featVars, hvVars, ciVars, tpVars, rqVars, gdVars, hiVars, rsVars, upVars, cdVars, uriVars, ccVars>>

\* the response has been sent
ErFinish ==
    /\ er.stage = "done"
    /\ er' = ErNone
    /\ UNCHANGED <<featVars, hvVars, ciVars, tpVars, rqVars, gdVars, hiVars, rsVars, upVars, cdVars, uriVars, ccVars>>

ErrorsNext ==
    \/ \E entry \in Entrypoints, origin \in ErOrigins, overLimit \in BOOLEAN,
          body \in ErBodies, path \in ErPaths, dbUp \in BOOLEAN,
          outcome \in ErOutcomes :
          ErReceive(entry, origin, overLimit, body, path, dbUp, outcome)
    \/ ErLimiter
    \/ ErCors
    \/ ErBodyParser
    \/ ErGuard
    \/ ErRoute
    \/ ErNotFound
    \/ ErErrorHandler
    \/ ErFinish

(***************************************************************************)
(* The file-size limits of the multer instances behind the upload routes:  *)
(* middleware/uploadImage.js, uploadHeroImages.js, uploadResultsImages.js, *)
(* uploadMultipleImages.js and uploadVideo.js.  Sizes are in MB.           *)
(***************************************************************************)
\* the maximum the documentation states
DocumentedMaxFileSizeMB == 10

\* limits.fileSize of the image uploaders
ImageFileSizeMB == 10

\* limits.fileSize of uploadVideo.js
VideoFileSizeMB == 100

\* sizes of the file of a request
UpSizes == {1, 10, 11, 100, 101}

\* the routes served by uploadSingleVideo or uploadMultipleVideos
VideoRouteNames ==
    {"POST /api/hero-videos", "PUT /api/hero-videos/update",
     "POST /api/upload/video", "POST /api/upload/videos"}

\* the routes whose chain has a multer middleware
UploadRouteNames ==
    {n \in RouteNames :
        \E i \in 1..Len(RouteOf(n).chain) :
            RouteOf(n).chain[i] \in {"multer", "multerWrapped"}}

\* limits.fileSize of the multer instance of the route
FileSizeLimitMB(route) ==
    IF route \in VideoRouteNames THEN VideoFileSizeMB ELSE ImageFileSizeMB

UpNone == [route |-> "none", size |-> 0, cloudOk |-> FALSE, stage |-> "none",
           status |-> 0, uploaded |-> FALSE]

UploadSizeInit == up = UpNone

\* an authenticated request with valid fields and one file of the given size
UpReceive(route, size, cloudOk) ==
    /\ up = UpNone
    /\ up' = [UpNone EXCEPT !.route = route, !.size = size, !.cloudOk = cloudOk,
                            !.stage = "multer"]
    /\ UNCHANGED <<featVars, hvVars, ciVars, tpVars, rqVars, gdVars, hiVars, rsVars, erVars, cdVars, uriVars, ccVars>>

\* multer: LIMIT_FILE_SIZE when the file exceeds limits.fileSize
UpMulter ==
    /\ up.stage = "multer"
    /\ up' = [up EXCEPT !.stage = IF up.size > FileSizeLimitMB(up.route)
                                  THEN "uploadError" ELSE "cloud"]
    /\ UNCHANGED <<featVars, hvVars, ciVars, tpVars, rqVars, gdVars, hiVars, rsVars, erVars, cdVars, uriVars, ccVars>>

\* handleUploadError: 400 for LIMIT_FILE_SIZE
UpHandleUploadError ==
    /\ up.stage = "uploadError"
    /\ up' = [up EXCEPT !.stage = "done", !.status = 400]
    /\ UNCHANGED <<featVars, hvVars, ciVars, tpVars, rqVars, gdVars, hiVars, rsVars, erVars, cdVars, uriVars, ccVars>>

\* the upload to Cloudinary and the rest of the route
UpCloudUpload ==
    /\ up.stage = "cloud"
    /\ up' = [up EXCEPT !.stage = "done", !.uploaded = TRUE,
                        !.status = IF up.cloudOk THEN RouteOf(up.route).okStatus
                                   ELSE 500]
    /\ UNCHANGED <<featVars, hvVars, ciVars, tpVars, rqVars, gdVars, hiVars, rsVars, erVars, cdVars, uriVars, ccVars>>

\* the response has been sent
UpFinish ==
    /\ up.stage = "done"
    /\ up' = UpNone
    /\ UNCHANGED <<featVars, hvVars, ciVars, tpVars, rqVars, gdVars, hiVars, rsVars, erVars, cdVars, uriVars, ccVars>>

UploadSizeNext ==
    \/ \E route \in UploadRouteNames, size \in UpSizes, cloudOk \in BOOLEAN :
          UpReceive(route, size, cloudOk)
    \/ UpMulter
    \/ UpHandleUploadError
    \/ UpCloudUpload
    \/ UpFinish

(***************************************************************************)
(* api/index.js, serverless version with cachedConnection and              *)
(* connectionPromise: connectDB, the connection attempts it starts, and    *)
(* the listeners on mongoose.connection.                                   *)
(***************************************************************************)
MaxCdAttempts == 3

CdAttemptIds == 1..MaxCdAttempts

\* where a connection attempt (the async function behind connectionPromise)
\* stands: awaiting mongoose.disconnect() ("disconnecting", or "waitOpen" when
\* the connection was being opened and the close waits for that to end),
\* awaiting mongoose.connect() ("connecting"), or settled
CdInProgress == {"disconnecting", "waitOpen", "connecting"}

ConnectInit ==
    /\ cd = [readyState |-> 0, cachedConnection |-> FALSE,
             connectionPromise |-> 0, dropped |-> FALSE]
    /\ cdAtt = [a \in CdAttemptIds |-> "unused"]
    /\ cdNext = 1
    /\ cdLast = "none"

\* the 'disconnected' and 'error' listeners
CdListenerReset(c) ==
    [c EXCEPT !.cachedConnection = FALSE, !.connectionPromise = 0]

\* the first step of a new attempt: mongoose.disconnect() unless readyState
\* is 0, else mongoose.connect()
CdAttemptStart(readyState) ==
    CASE readyState = 0 -> "connecting"
      [] readyState = 2 -> "waitOpen"
      [] OTHER -> "disconnecting"

\* connectDB
ConnectDB ==
    IF cd.cachedConnection /\ cd.readyState = 1
    THEN /\ cdLast' = "cached"
         /\ UNCHANGED <<cd, cdAtt, cdNext>>
    ELSE IF cd.connectionPromise # 0
    THEN /\ cdLast' = "existing"
         /\ UNCHANGED <<cd, cdAtt, cdNext>>
    ELSE /\ cdNext <= MaxCdAttempts
         /\ cdLast' = "new"
         /\ cdAtt' = [cdAtt EXCEPT ![cdNext] = CdAttemptStart(cd.readyState)]
         /\ cd' = [cd EXCEPT !.connectionPromise = cdNext,
                             !.dropped = FALSE,
                             !.readyState = CASE cd.readyState = 0 -> 2
                                              [] cd.readyState = 1 -> 3
                                              [] OTHER -> cd.readyState]
         /\ cdNext' = cdNext + 1

\* a request reaches checkDBConnection, which calls connectDB
CdRequest ==
    /\ ConnectDB
    /\ UNCHANGED <<featVars, hvVars, ciVars, tpVars, rqVars, gdVars, hiVars, rsVars, erVars, upVars, uriVars, ccVars>>

\* mongoose.disconnect() ends: 'disconnected' is emitted, and the attempts
\* that awaited it go on to mongoose.connect()
CdCloseDone ==
    /\ cd.readyState = 3
    /\ LET waiting == {a \in CdAttemptIds : cdAtt[a] = "disconnecting"}
       IN  /\ cd' = [CdListenerReset(cd) EXCEPT
                       !.readyState = IF waiting = {} THEN 0 ELSE 2]
           /\ cdAtt' = [a \in CdAttemptIds |->
                          IF a \in waiting THEN "connecting" ELSE cdAtt[a]]
    /\ UNCHANGED <<cdNext, cdLast>>
    /\ UNCHANGED <<featVars, hvVars, ciVars, tpVars, rqVars, gdVars, hiVars, rsVars, erVars, upVars, uriVars, ccVars>>

\* mongoose.connect() ends.  On success the attempts awaiting it set
\* cachedConnection; on failure 'error' is emitted and their catch clears
\* cachedConnection and connectionPromise.  A mongoose.disconnect() that
\* waited for this moment then closes the connection.
CdConnectSettle(ok) ==
    /\ cd.readyState = 2
    /\ LET waiters == {a \in CdAttemptIds : cdAtt[a] = "waitOpen"}
       IN  /\ cdAtt' = [a \in CdAttemptIds |->
                          CASE cdAtt[a] = "connecting" ->
                                 IF ok THEN "resolved" ELSE "rejected"
                            [] cdAtt[a] = "waitOpen" ->
                                 IF ok THEN "disconnecting" ELSE "connecting"
                            [] OTHER -> cdAtt[a]]
           /\ cd' = IF ok
                    THEN [cd EXCEPT !.cachedConnection = TRUE,
                                    !.readyState = IF waiters = {} THEN 1 ELSE 3]
                    ELSE [CdListenerReset(cd) EXCEPT
                            !.readyState = IF waiters = {} THEN 0 ELSE 2]
    /\ UNCHANGED <<cdNext, cdLast>>
    /\ UNCHANGED <<featVars, hvVars, ciVars, tpVars, rqVars, gdVars, hiVars, rsVars, erVars, upVars, uriVars, ccVars>>

\* the connection is lost: 'disconnected'
CdDisconnected ==
    /\ cd.readyState = 1
    /\ cd' = [CdListenerReset(cd) EXCEPT !.readyState = 0, !.dropped = TRUE]
    /\ UNCHANGED <<cdAtt, cdNext, cdLast>>
    /\ UNCHANGED <<featVars, hvVars, ciVars, tpVars, rqVars, gdVars, hiVars, rsVars, erVars, upVars, uriVars, ccVars>>

\* the driver finds the server again: 'connected', whose listener only logs
CdReconnected ==
    /\ cd.readyState = 0
    /\ cd.dropped
    /\ cd' = [cd EXCEPT !.readyState = 1, !.dropped = FALSE]
    /\ UNCHANGED <<cdAtt, cdNext, cdLast>>
    /\ UNCHANGED <<featVars, hvVars, ciVars, tpVars, rqVars, gdVars, hiVars, rsVars, erVars, upVars, uriVars, ccVars>>

\* an error on the open connection: 'error'
CdError ==
    /\ cd.readyState = 1
    /\ cd' = CdListenerReset(cd)
    /\ UNCHANGED <<cdAtt, cdNext, cdLast>>
    /\ UNCHANGED <<featVars, hvVars, ciVars, tpVars, rqVars, gdVars, hiVars, rsVars, erVars, upVars, uriVars, ccVars>>

ConnectNext ==
    \/ CdRequest
    \/ CdCloseDone
    \/ \E ok \in BOOLEAN : CdConnectSettle(ok)
    \/ CdDisconnected
    \/ CdReconnected
    \/ CdError

(***************************************************************************)
(* The MongoDB connection string of each entrypoint: server.js, the two    *)
(* versions of api/index.js and the two serverless variants with a         *)
(* hardcoded connection string.                                            *)
(***************************************************************************)
\* currentUri.length <= 65 in server.js
RailwayBrokenUriLength == 65

\* RESOLVED_MONGODB_URI.length < 100 in the serverless variant
VercelIncompleteUriLength == 100

\* length of the connection string written in the code
HardcodedUriLength == 97

EnvNames == <<"MONGODB_URI", "DATABASE_URL", "MONGO_URL", "MONGODB_CONNECTION_STRING">>

\* lengths of the connection strings of the environment
EnvUriLengths == {60, 120}

\* a variable of the environment that is not set, or set to ''
UriUnset == [from |-> "unset", len |-> 0]

\* the connection string written in the code
UriHardcoded == [from |-> "code", len |-> HardcodedUriLength]

\* the environments: each variable holds the length of its connection
\* string, 0 when it is not set
Envs ==
    [{EnvNames[i] : i \in 1..Len(EnvNames)} ->
        {0} \cup EnvUriLengths]

\* process.env[name]
EnvValue(env, name) ==
    IF env[name] = 0 THEN UriUnset ELSE [from |-> name, len |-> env[name]]

\* a || b
JsOr(a, b) == IF a.len > 0 THEN a ELSE b

\* process.env.MONGODB_URI || process.env.DATABASE_URL ||
\* process.env.MONGO_URL || process.env.MONGODB_CONNECTION_STRING
EnvChain(env) ==
    JsOr(EnvValue(env, "MONGODB_URI"),
         JsOr(EnvValue(env, "DATABASE_URL"),
              JsOr(EnvValue(env, "MONGO_URL"),
                   EnvValue(env, "MONGODB_CONNECTION_STRING"))))

UriEntrypoints == Entrypoints \cup {"serverlessCached", "serverlessForced"}

\* server.js: RESOLVED_MONGODB_URI, with the override for Railway
ResolveServer(env, railway) ==
    IF railway /\ EnvChain(env).len > 0
              /\ EnvChain(env).len <= RailwayBrokenUriLength
    THEN UriHardcoded ELSE EnvChain(env)

\* api/index.js, first version: connectDB resolves the chain
ResolveApiV1(env) == EnvChain(env)

\* api/index.js, second version: connectDB reads MONGODB_URI only
ResolveApiV2(env) == EnvValue(env, "MONGODB_URI")

\* serverless variant with cachedConnection: the chain, then the hardcoded
\* connection string
ResolveServerlessCached(env) == JsOr(EnvChain(env), UriHardcoded)

\* serverless variant with isConnected: the chain, the fix for a short URI,
\* then the hardcoded connection string in every case
ResolveServerlessForced(env) ==
    LET fixed == IF EnvChain(env).len > 0
                    /\ EnvChain(env).len < VercelIncompleteUriLength
                 THEN UriHardcoded ELSE EnvChain(env)
    IN  UriHardcoded

ResolveUri(entry, env, railway) ==
    CASE entry = "server" -> ResolveServer(env, railway)
      [] entry = "apiV1" -> ResolveApiV1(env)
      [] entry = "apiV2" -> ResolveApiV2(env)
      [] entry = "serverlessCached" -> ResolveServerlessCached(env)
      [] OTHER -> ResolveServerlessForced(env)

UriNone == [entry |-> "none", env |-> [n \in {EnvNames[i] : i \in 1..Len(EnvNames)} |-> 0], railway |-> FALSE,
            resolved |-> UriUnset, passed |-> UriUnset, stage |-> "none"]

UriInit == uriSt = UriNone

\* the process starts and resolves its connection string
UriBoot(entry, env, railway) ==
    /\ uriSt = UriNone
    /\ uriSt' = [UriNone EXCEPT !.entry = entry, !.env = env, !.railway = railway,
                                !.resolved = ResolveUri(entry, env, railway),
                                !.stage = "resolved"]
    /\ UNCHANGED <<featVars, hvVars, ciVars, tpVars, rqVars, gdVars, hiVars, rsVars, erVars, upVars, cdVars, ccVars>>

\* mongoose.connect(uri), called when the resolved string is not empty
UriConnect ==
    /\ uriSt.stage = "resolved"
    /\ uriSt' = [uriSt EXCEPT !.stage = "started",
                              !.passed = IF uriSt.resolved.len > 0
                                         THEN uriSt.resolved ELSE UriUnset]
    /\ UNCHANGED <<featVars, hvVars, ciVars, tpVars, rqVars, gdVars, hiVars, rsVars, erVars, upVars, cdVars, ccVars>>

\* the process is stopped
UriExit ==
    /\ uriSt.stage = "started"
    /\ uriSt' = UriNone
    /\ UNCHANGED <<featVars, hvVars, ciVars, tpVars, rqVars, gdVars, hiVars, rsVars, erVars, upVars, cdVars, ccVars>>

UriNext ==
    \/ \E entry \in UriEntrypoints, env \in Envs, railway \in BOOLEAN :
          UriBoot(entry, env, railway)
    \/ UriConnect
    \/ UriExit

(***************************************************************************)
(* The cached connection of api/index.js: global.__mongooseConn and the    *)
(* concurrent calls of connectDB.                                          *)
(***************************************************************************)
\* connectDB calls that may be running at once
MaxCcCalls == 3

CcCallIds == 1..MaxCcCalls

\* a call of connectDB that is not running
CcIdle == [pc |-> "idle", awaits |-> 0, ret |-> 0, afterSuccess |-> FALSE]

\* cached = global.__mongooseConn = { conn: null, promise: null }; 0 is null,
\* k is the result of the k-th mongoose.connect
CachedInit ==
    /\ cached = [loaded |-> FALSE, hasUri |-> FALSE, conn |-> 0, promise |-> 0]
    /\ ccPromises = [k \in CcCallIds |-> "none"]
    /\ ccConnects = 0
    /\ ccCalls = [c \in CcCallIds |-> CcIdle]

\* a variant of the guard that connects on every call
CcConnectsAlways(promise) == TRUE

\* if (!cached.promise)
CcNoPromise(promise) == promise = 0

\* the module is loaded with or without a connection string in the environment
CcLoad(hasUri) ==
    /\ ~cached.loaded
    /\ cached' = [cached EXCEPT !.loaded = TRUE, !.hasUri = hasUri]
    /\ UNCHANGED <<ccPromises, ccConnects, ccCalls>>
    /\ UNCHANGED <<featVars, hvVars, ciVars, tpVars, rqVars, gdVars, hiVars, rsVars, erVars, upVars, cdVars, uriVars>>

\* connectDB() up to its await: the cached connection, the connection string,
\* then the promise, created by mongoose.connect when there is none
CcConnectDB(c) ==
    /\ cached.loaded
    /\ ccCalls[c].pc = "idle"
    /\ LET after == \E k \in CcCallIds : ccPromises[k] = "ok"
       IN  IF cached.conn # 0
           THEN /\ ccCalls' = [ccCalls EXCEPT ![c] =
                       [pc |-> "done", awaits |-> 0, ret |-> cached.conn,
                        afterSuccess |-> after]]
                /\ UNCHANGED <<cached, ccPromises, ccConnects>>
           ELSE IF ~cached.hasUri
           THEN /\ ccCalls' = [ccCalls EXCEPT ![c] =
                       [pc |-> "done", awaits |-> 0, ret |-> 0,
                        afterSuccess |-> after]]
                /\ UNCHANGED <<cached, ccPromises, ccConnects>>
           ELSE IF CcNoPromise(cached.promise)
           THEN /\ ccConnects < MaxCcCalls
                /\ ccConnects' = ccConnects + 1
                /\ ccPromises' = [ccPromises EXCEPT ![ccConnects + 1] = "pending"]
                /\ cached' = [cached EXCEPT !.promise = ccConnects + 1]
                /\ ccCalls' = [ccCalls EXCEPT ![c] =
                       [pc |-> "await", awaits |-> ccConnects + 1, ret |-> 0,
                        afterSuccess |-> after]]
           ELSE /\ ccCalls' = [ccCalls EXCEPT ![c] =
                       [pc |-> "await", awaits |-> cached.promise, ret |-> 0,
                        afterSuccess |-> after]]
                /\ UNCHANGED <<cached, ccPromises, ccConnects>>
    /\ UNCHANGED <<featVars, hvVars, ciVars, tpVars, rqVars, gdVars, hiVars, rsVars, erVars, upVars, cdVars, uriVars>>

\* mongoose.connect settles: .then returns the instance, .catch returns null
CcSettle(k, ok) ==
    /\ ccPromises[k] = "pending"
    /\ ccPromises' = [ccPromises EXCEPT ![k] = IF ok THEN "ok" ELSE "null"]
    /\ UNCHANGED <<cached, ccConnects, ccCalls>>
    /\ UNCHANGED <<featVars, hvVars, ciVars, tpVars, rqVars, gdVars, hiVars, rsVars, erVars, upVars, cdVars, uriVars>>

\* cached.conn = await cached.promise; return cached.conn
CcResume(c) ==
    /\ ccCalls[c].pc = "await"
    /\ ccPromises[ccCalls[c].awaits] \in {"ok", "null"}
    /\ LET value == IF ccPromises[ccCalls[c].awaits] = "ok"
                    THEN ccCalls[c].awaits ELSE 0
       IN  /\ cached' = [cached EXCEPT !.conn = value]
           /\ ccCalls' = [ccCalls EXCEPT ![c].pc = "done", ![c].ret = value]
    /\ UNCHANGED <<ccPromises, ccConnects>>
    /\ UNCHANGED <<featVars, hvVars, ciVars, tpVars, rqVars, gdVars, hiVars, rsVars, erVars, upVars, cdVars, uriVars>>

\* the caller takes the result; the same caller may call again
CcReturn(c) ==
    /\ ccCalls[c].pc = "done"
    /\ ccCalls' = [ccCalls EXCEPT ![c] = CcIdle]
    /\ UNCHANGED <<cached, ccPromises, ccConnects>>
    /\ UNCHANGED <<featVars, hvVars, ciVars, tpVars, rqVars, gdVars, hiVars, rsVars, erVars, upVars, cdVars, uriVars>>

CachedNext ==
    \/ \E hasUri \in BOOLEAN : CcLoad(hasUri)
    \/ \E c \in CcCallIds : CcConnectDB(c)
    \/ \E k \in CcCallIds, ok \in BOOLEAN : CcSettle(k, ok)
    \/ \E c \in CcCallIds : CcResume(c)
    \/ \E c \in CcCallIds : CcReturn(c)

Init == FeaturesInit /\ HeroVideoInit /\ ClinicInfoInit /\ TeamPictureInit /\ RoutesInit
        /\ GuardInit /\ HeroImageInit
        /\ ResultsInit
        /\ ErrorsInit
        /\ UploadSizeInit
        /\ ConnectInit
        /\ UriInit
        /\ CachedInit

SpecFeatures == Init /\ [][FeaturesNext]_vars

SpecHeroVideo == Init /\ [][HeroVideoNext]_vars

SpecClinicInfo == Init /\ [][ClinicInfoNext]_vars

SpecTeamPicture == Init /\ [][TeamPictureNext]_vars

SpecRoutes == Init /\ [][RoutesNext]_vars

SpecGuard == Init /\ [][GuardNext]_vars

SpecHeroImage == Init /\ [][HeroImageNext]_vars

SpecCached == Init /\ [][CachedNext]_vars

SpecUri == Init /\ [][UriNext]_vars

SpecConnect == Init /\ [][ConnectNext]_vars

SpecUploadSize == Init /\ [][UploadSizeNext]_vars

SpecErrors == Init /\ [][ErrorsNext]_vars

SpecResults == Init /\ [][ResultsNext]_vars

\* C4: the feature list never holds more than 2 items, whatever POST
\* /api/features and DELETE /api/features/:id requests were served.
C4_MaxTwoFeatures == Len(features) <= MaxFeatures

\* a feature was deleted and another one was added in its place
C4_Witness == Len(features) = MaxFeatures /\ features[2].id > 3 /\ featRes = 201

\* C1: the HeroVideo collection holds at most one document, for every
\* interleaving of POST, PUT /update and DELETE requests.
C1_AtMostOneHeroVideo == Cardinality(heroVideos) <= 1

\* C8: a POST /api/hero-videos answered 400 because a hero video exists has
\* uploaded no video to Cloudinary.
C8_NoUploadWhenExists ==
    \A r \in HvReqIds :
        (hvReq[r].route = "post" /\ hvReq[r].status = 400 /\ hvReq[r].why = "exists")
            => hvReq[r].cloudinaryData = 0

\* C2: the ClinicInfo collection holds at most one document after any
\* sequence of POST, PUT /update and DELETE requests.
C2_AtMostOneClinicInfo == Cardinality(clinicInfos) <= 1

\* C3: the TeamPicture collection holds at most one document, for every
\* interleaving of POST, PUT and DELETE requests on /api/team-pictures.
C3_AtMostOneTeamPicture == Cardinality(teamPictures) <= 1

C7_NoUploadWhenInvalid ==
    (rq.route # "none" /\ RouteOf(rq.route).validates /\ ~rq.valid)
        => ~rq.uploadCalled

C6_HandlerOnlyWhenConnected ==
    \A r \in GdReqIds :
        /\ gdReq[r].handlerRan => gdReq[r].dbUp
        /\ gdReq[r].status = 503 => ~gdReq[r].handlerRan

\* C10: after a PUT /api/hero-images/:id that carried no image file and was
\* answered 200, the document's image and mobileImage are what they were
\* before the request.
C10_NoFileKeepsImages ==
    (hiLast.op = "put" /\ hiLast.files = {} /\ hiLast.status = 200) =>
        \A d \in heroImages :
            d.id = hiLast.id =>
                d.image = hiLast.image /\ d.mobileImage = hiLast.mobileImage

\* C11: an authenticated PUT /api/team/:id for an existing team member with
\* valid text fields and no image file is answered 200 and updates the
\* document.
C11_TeamPutWithoutImage ==
    (/\ rq.route = "PUT /api/team/:id"
     /\ auth(rq.tok) /\ rq.files = "none" /\ rq.valid /\ rq.found
     /\ rq.status # 0)
        => rq.status = 200 /\ rq.dbWritten

\* C12: an authenticated POST /api/hero-images that carries no image file is
\* answered 400 and creates no HeroImage document.
C12_HeroImagePostWithoutFiles ==
    (/\ rq.route = "POST /api/hero-images"
     /\ auth(rq.tok) /\ rq.files = "none"
     /\ rq.status # 0)
        => rq.status = 400 /\ ~rq.dbWritten

\* C13: a POST /api/feedback with a valid body and no JWT token creates the
\* feedback document and is answered 201.
C13_FeedbackPostWithoutToken ==
    (/\ rq.route = "POST /api/feedback"
     /\ rq.tok = "none" /\ rq.valid
     /\ rq.status # 0)
        => rq.status = 201 /\ rq.dbWritten

\* C14: a DELETE /api/results/:id for an existing result removes the document
\* and is answered 200 whether or not the deletion of either image in
\* Cloudinary failed (the request being authenticated and the database
\* answering).
C14_DeleteResultDespiteCloudinary ==
    (/\ rsLast.op = "delete"
     /\ rsLast.authed /\ rsLast.existed /\ rsLast.dbOk)
        => /\ rsLast.status = 200
           /\ \A d \in results : d.id # rsLast.id

\* a result was deleted with 200 although Cloudinary failed on an image
C14_Witness ==
    /\ rsLast.op = "delete"
    /\ rsLast.destroy = "beforeFails"
    /\ rsLast.status = 200
    /\ rsLast.existed
    /\ \A d \in results : d.id # rsLast.id

\* C15: every response with a 4xx or 5xx status carries a JSON body whose
\* success field is false.
C15_ErrorsCarrySuccessFalse ==
    er.status >= 400 => er.success = "false"

\* C16: every upload route rejects with 400 a file larger than 10MB and
\* uploads nothing to Cloudinary for it.
C16_TenMegabyteLimit ==
    (up.route # "none" /\ up.size > DocumentedMaxFileSizeMB) =>
        /\ ~up.uploaded
        /\ up.status \in {0, 400}

\* C17: connectDB returns the existing connection attempt if one is in
\* progress, so at any moment at most one connection attempt is in progress.
C17_OneConnectAttempt ==
    Cardinality({a \in CdAttemptIds : cdAtt[a] \in CdInProgress}) <= 1

\* C18: the URI passed to mongoose.connect is the first of MONGODB_URI,
\* DATABASE_URL, MONGO_URL, MONGODB_CONNECTION_STRING that is set in the
\* environment (and none when none of them is set).
C18_FirstSetVariable ==
    uriSt.stage = "started" =>
        LET set == {i \in 1..Len(EnvNames) : uriSt.env[EnvNames[i]] # 0}
        IN  IF set = {} THEN uriSt.passed = UriUnset
            ELSE LET first == CHOOSE i \in set : \A j \in set : i <= j
                 IN  uriSt.passed = [from |-> EnvNames[first],
                                     len |-> uriSt.env[EnvNames[first]]]

\* C19: within one process of api/index.js mongoose.connect is called at
\* most once, whatever the interleaving of the connectDB calls, and every
\* connectDB call made after a successful connect returns the same cached
\* connection.
C19_ConnectOnceAndCached ==
    /\ ccConnects <= 1
    /\ \A c \in CcCallIds :
          (ccCalls[c].pc = "done" /\ ccCalls[c].afterSuccess) =>
              /\ ccCalls[c].ret # 0
              /\ ccCalls[c].ret = cached.conn
              /\ \A d \in CcCallIds :
                    (ccCalls[d].pc = "done" /\ ccCalls[d].ret # 0) =>
                        ccCalls[d].ret = ccCalls[c].ret

\* two connectDB calls ran while mongoose.connect was pending, a third one
\* was made after it succeeded, and all three returned the connection
C19_Witness ==
    /\ ccConnects = 1
    /\ \E c, d, e \in CcCallIds :
          /\ c # d /\ d # e /\ c # e
          /\ ccCalls[c].pc = "done" /\ ~ccCalls[c].afterSuccess
          /\ ccCalls[d].pc = "done" /\ ~ccCalls[d].afterSuccess
          /\ ccCalls[e].pc = "done" /\ ccCalls[e].afterSuccess
          /\ ccCalls[c].ret = 1 /\ ccCalls[d].ret = 1 /\ ccCalls[e].ret = 1

====
